---- MODULE Spec2Model ----
(***************************************************************************)
(* Product-launch assistant: the pipeline orchestrator (workflow.py), the  *)
(* generation adapter (generation.py), the memory compactor (memory.py),   *)
(* the quality gate (quality.py) and the session store (sessions.py).      *)
(*                                                                         *)
(* Python dicts are modelled as functions from keys to tagged values; the  *)
(* nested mutable objects (the retries and model_used dicts, the           *)
(* recent_events list) live in a heap and are held by reference, so that   *)
(* dict.copy() is the shallow copy Python makes.  The state dict is passed *)
(* by reference from node to node, as the source's in-place mutations      *)
(* (route_after_market_research) assume.                                   *)
(***************************************************************************)
EXTENDS Integers, Sequences, FiniteSets, TLC

VARIABLES
    dicts,      \* the state dicts: "main" (orchestrator), "c1", "c2" (group copies)
    heap,       \* address -> nested object (dict or list) or NoObj
    tasks,      \* task id -> coroutine frame (step, pc, locals)
    node,       \* the graph node the orchestrator is at
    mrRuns,     \* history: number of executions of market_research
    wrote,      \* history: task id -> last value written per location
    forkSnap,   \* history: deep value of the orchestrator state at the last fork
    lastJoin,   \* history: the group whose merge ran last (0: none since fork)
    doneOrder,  \* history: members of the current group in completion order
    fails,      \* history: backend failures so far in this run
    calls,      \* history: backend calls so far in this run
    gen,        \* the frame of one direct generate_with_retries invocation
    session_store, \* sessions.py: session id -> session or NoSession
    now,        \* the wall clock, in hours
    lastAccess, \* history: session id -> time of the last create/get/update
    lastGet,    \* history: the outcome of the last get_session
    refines,    \* history: refine requests handled so far
    lastRefine, \* history: the last refine request and its outcome
    redis,      \* the external cache: session id -> stored document or NoSession
    procs,      \* server process -> frame of the session operation it executes
    acked,      \* history: the update_session calls that have returned
    logged,     \* history: every (section_key, content) passed to log_step
    lastCompact, \* history: the last maybe_update_memory_summary call
    q,          \* one assess_quality call: its arguments and its result
    search      \* one web_search call: the provider's response and the result

pvars == <<dicts, heap, tasks, node, mrRuns, wrote, forkSnap, lastJoin, doneOrder, fails, calls>>
gvars == <<gen>>
rvars == <<refines, lastRefine>>
cvars == <<redis, procs, acked>>
mvars == <<logged, lastCompact>>
evars == <<refines, lastRefine, redis, procs, acked, logged, lastCompact, q, search>>
svars == <<session_store, now, lastAccess, lastGet, evars>>
vars == <<dicts, heap, tasks, node, mrRuns, wrote, forkSnap, lastJoin, doneOrder,
          fails, calls, gen, session_store, now, lastAccess, lastGet,
          refines, lastRefine, redis, procs, acked, logged, lastCompact, q, search>>

----------------------------------------------------------------------------
(* Program constants *)

MARKET_RESEARCH_MIN_CHARS == 800
MAX_RECENT_EVENTS == 12
SUMMARY_MIN_CHARS == 1200
PREVIEW_CHARS == 240
max_mr_retries == 2
STEP_MAX_RETRIES == 1
SESSION_TTL_HOURS == 24

(* Bounds of the model *)

MaxAddr == 4        \* heap addresses
MaxFails == 3       \* backend failures explored in one pipeline run
MaxGenRetries == 3  \* largest max_retries of a direct generate_with_retries call
MaxTime == 26       \* hours of wall clock explored
MaxSessions == 1    \* session identifiers
MaxHist == 1        \* history records of one session
MaxProcs == 2       \* server processes that share the external cache
MaxRefines == 2     \* refine requests handled on the session store
MaxTokens == 3      \* tokens of a text handed to assess_quality
MaxLogCalls == 3    \* log_step calls applied to one state
MaxOps == 3         \* session operations executed by the server processes
MaxCacheFaults == 1 \* cache calls that raise

----------------------------------------------------------------------------
(* Values *)

Steps == {"market_research", "product_description", "pricing_strategy",
          "launch_plan", "marketing_content"}

IdentityKeys == {"product_name", "product_details", "target_market"}

Keys == IdentityKeys \cup Steps \cup
        {"max_retries", "retries", "model_used", "market_research_quality",
         "_mr_retries", "_mr_query_hint", "recent_events", "memory_summary",
         "marketing_content_json", "downloadable_files"}

\* the keys of the nested retries and model_used dicts: the section_key of a
\* generation call (a step name, or whatever key a refine request names)
SectionKeys == Steps \cup IdentityKeys

DictIds == {"main", "c1", "c2"}
TaskIds == {"main", "t1", "t2"}
Addrs == 1..MaxAddr

Min(a, b) == IF a < b THEN a ELSE b

Absent == [t |-> "absent"]
NoObj == [t |-> "free"]
StrV(s) == [t |-> "str", v |-> s]
IntV(n) == [t |-> "int", v |-> n]
RefV(a) == [t |-> "ref", a |-> a]
ObjV(o) == [t |-> "obj", id |-> o]

\* A text: its identity (body), raw length, surrounding whitespace (pad),
\* word count, whether it holds a failure indicator or a placeholder phrase,
\* the JSON value that parsing finds in it ("none": no JSON; "O1": an object
\* with every key of the schema; "P1": an object that lacks keys; "list": a
\* JSON value that is not an object), and whether the launch diagram block is
\* appended.  pad counts trailing whitespace.
Text(body, len, pad, words, fail, ph, obj) ==
    [t |-> "text", body |-> body, len |-> len, pad |-> pad, words |-> words,
     fail |-> fail, ph |-> ph, obj |-> obj, diag |-> FALSE]

EmptyText == Text("", 0, 0, 0, FALSE, FALSE, "none")

\* What the backends return in this model: a long, structured answer that is
\* also a JSON object, and a short prose answer.
GoodJsonText == Text("good_json", 1300, 0, 210, FALSE, FALSE, "O1")
ShortProseText == Text("short_prose", 102, 2, 18, FALSE, FALSE, "none")
BackendTexts == {GoodJsonText, ShortProseText}

\* Further answers to the marketing prompt: a JSON object that lacks keys of
\* the schema, a JSON array, and prose around a complete JSON object.
PartialJsonText == Text("partial_json", 420, 0, 40, FALSE, FALSE, "P1")
ArrayJsonText == Text("json_array", 380, 0, 36, FALSE, FALSE, "list")
EmbeddedJsonText == Text("prose_around_json", 1380, 0, 224, FALSE, FALSE, "O1")
MarketingTexts == BackendTexts \cup {PartialJsonText, ArrayJsonText, EmbeddedJsonText}

\* The answers explored for a step of the pipeline: both answers where the
\* answer drives a branch of the step (the quality verdict of market_research,
\* the JSON parse of marketing_content), the long answer elsewhere.
StepTexts(step) ==
    IF step = "market_research" THEN BackendTexts
    ELSE IF step = "marketing_content" THEN MarketingTexts
    ELSE {GoodJsonText}

\* generation.py:61  "⚠️ Generation failed after retries and fallback."
SentinelText == Text("sentinel", 48, 0, 7, TRUE, FALSE, "none")

IsText(v) == v.t = "text"

\* state.get(key, "") for a text key
GetText(d, k) == IF d[k] = Absent THEN EmptyText ELSE d[k]
\* state.get(key, default) for an integer key
GetInt(d, k, dflt) == IF d[k] = Absent THEN dflt ELSE d[k].v
\* state.get(key, default) for a string key
GetStr(d, k, dflt) == IF d[k] = Absent THEN dflt ELSE d[k].v

----------------------------------------------------------------------------
(* Heap of nested objects *)

EmptyDict == [t |-> "dict", m |-> [s \in SectionKeys |-> Absent]]
EmptyList == [t |-> "list", items |-> <<>>]

HasFree(h) == \E a \in Addrs : h[a] = NoObj
Alloc(h) == CHOOSE a \in Addrs : h[a] = NoObj /\ \A b \in Addrs : b < a => h[b] # NoObj

\* The world the pure operators transform: the dicts, the heap and the
\* write log (history).
World(d, h, wr) == [d |-> d, h |-> h, wr |-> wr]

DictOf(tk) == IF tk = "t1" THEN "c1" ELSE IF tk = "t2" THEN "c2" ELSE "main"

\* history: task tk wrote val at location (key, sub)
LogWrite(wr, tk, key, sub, val) ==
    [wr EXCEPT ![tk] = {r \in @ : ~(r.key = key /\ r.sub = sub)}
                         \cup {[key |-> key, sub |-> sub, val |-> val]}]

\* state[key] = val
SetKey(w, tk, key, val) ==
    [w EXCEPT !.d[DictOf(tk)][key] = val, !.wr = LogWrite(@, tk, key, "-", val)]

\* state.setdefault(key, obj): binds key to a fresh object when it is missing
SetDefault(w, tk, key, obj) ==
    IF w.d[DictOf(tk)][key] # Absent THEN w
    ELSE LET a == Alloc(w.h)
         IN [w EXCEPT !.d[DictOf(tk)][key] = RefV(a), !.h[a] = obj,
                      !.wr = LogWrite(@, tk, key, "-", RefV(a))]

\* nested[sub] = val, for the dict object that state[key] refers to
SetEntry(w, tk, key, sub, val) ==
    LET a == w.d[DictOf(tk)][key].a
    IN [w EXCEPT !.h[a].m[sub] = val, !.wr = LogWrite(@, tk, key, sub, val)]

\* The value of a dict with every reference replaced by the object it holds
Deep(d, h) == [k \in Keys |-> IF d[k].t = "ref" THEN h[d[k].a] ELSE d[k]]

----------------------------------------------------------------------------
(* quality.py *)

\* mutant: the word threshold is taken from the length of the text
assess_quality_by_length(text, minimum_characters) ==
    LET blobLen == text.len - text.pad
        min_words == blobLen \div 6
    IN  IF blobLen < minimum_characters THEN "poor"
        ELSE IF text.fail THEN "poor"
        ELSE IF text.ph THEN "poor"
        ELSE IF text.words < min_words THEN "poor"
        ELSE "good"

\* mutant: the placeholder phrases are not looked for
assess_quality_no_placeholder(text, minimum_characters) ==
    LET blobLen == text.len - text.pad
        min_words == minimum_characters \div 6
    IN  IF blobLen < minimum_characters THEN "poor"
        ELSE IF text.fail THEN "poor"
        ELSE IF text.words < min_words THEN "poor"
        ELSE "good"

assess_quality(text, minimum_characters) ==
    LET blobLen == text.len - text.pad
        min_words == minimum_characters \div 6
    IN  IF blobLen < minimum_characters THEN "poor"
        ELSE IF text.fail THEN "poor"
        ELSE IF text.ph THEN "poor"
        ELSE IF text.words < min_words THEN "poor"
        ELSE "good"

----------------------------------------------------------------------------
(* memory.py *)

Preview(content) ==
    [body |-> content.body, diag |-> content.diag, len |-> Min(content.len, PREVIEW_CHARS)]

Event(section_key, content) == [section |-> section_key, preview |-> Preview(content)]

\* recent[-n:]
LastN(s, n) == IF Len(s) <= n THEN s ELSE SubSeq(s, Len(s) - n + 1, Len(s))

\* mutant: the list is never cut back to its capacity
log_step_uncapped(w, tk, section_key, content) ==
    LET w1 == SetDefault(w, tk, "recent_events", EmptyList)
        a == w1.d[DictOf(tk)]["recent_events"].a
        ev == Event(section_key, content)
    IN  [w1 EXCEPT !.h[a].items = Append(@, ev),
                   !.wr = LogWrite(@, tk, "recent_events", section_key, ev)]

log_step(w, tk, section_key, content) ==
    LET w1 == SetDefault(w, tk, "recent_events", EmptyList)
        a == w1.d[DictOf(tk)]["recent_events"].a
        ev == Event(section_key, content)
        recent == Append(w1.h[a].items, ev)
        w2 == [w1 EXCEPT !.h[a].items = recent,
                         !.wr = LogWrite(@, tk, "recent_events", section_key, ev)]
    IN  IF Len(recent) > MAX_RECENT_EVENTS
        THEN LET b == Alloc(w2.h)
                 w3 == [w2 EXCEPT !.d[DictOf(tk)]["recent_events"] = RefV(b),
                           !.h[b] = [t |-> "list", items |-> LastN(recent, MAX_RECENT_EVENTS)],
                           !.wr = LogWrite(@, tk, "recent_events", "-", RefV(b))]
             IN  \* the list that was replaced is freed when no dict refers to it
                 IF \E i \in DictIds : w3.d[i]["recent_events"] = RefV(a) THEN w3
                 ELSE [w3 EXCEPT !.h[a] = NoObj]
        ELSE w2

RecentEvents(d, h) ==
    IF d["recent_events"] = Absent THEN <<>> ELSE h[d["recent_events"].a].items

RECURSIVE SumPreviewLen(_)
SumPreviewLen(s) == IF s = <<>> THEN 0 ELSE Head(s).preview.len + SumPreviewLen(Tail(s))

\* len of "\n\n".join(p for p in corpus_parts if p)
CorpusLen(d, h) ==
    LET mr == Min(GetText(d, "market_research").len, 2000)
        ps == Min(GetText(d, "pricing_strategy").len, 1200)
        lp == Min(GetText(d, "launch_plan").len, 1200)
        evs == LastN(RecentEvents(d, h), 6)
        evPart == 16 + SumPreviewLen(evs) + (IF Len(evs) > 0 THEN Len(evs) - 1 ELSE 0)
        parts == (IF mr > 0 THEN 1 ELSE 0) + (IF ps > 0 THEN 1 ELSE 0)
                 + (IF lp > 0 THEN 1 ELSE 0) + 1
    IN  mr + ps + lp + evPart + 2 * (parts - 1)

SummaryLen(d) == IF d["memory_summary"] = Absent THEN 0 ELSE d["memory_summary"].len

\* whether maybe_update_memory_summary calls the backend
CompactionDue(d, h) ==
    ~(SummaryLen(d) < SUMMARY_MIN_CHARS /\ CorpusLen(d, h) < SUMMARY_MIN_CHARS)

\* The backend's summary of a prompt: it is determined by the prompt, whose
\* varying parts are the texts of the corpus and the recent event previews.
SummaryOf(d, h) ==
    [t |-> "summary", len |-> 600,
     corpus |-> <<GetText(d, "market_research").body, GetText(d, "pricing_strategy").body,
                  GetText(d, "launch_plan").body>>,
     seen |-> [i \in 1..Len(LastN(RecentEvents(d, h), 6)) |->
                  LastN(RecentEvents(d, h), 6)[i].section]]

\* mutant: a failed compaction call clears the summary
maybe_update_memory_summary_clears(w, tk, outcome) ==
    LET d == w.d[DictOf(tk)]
    IN  IF ~CompactionDue(d, w.h) THEN w
        ELSE IF outcome = "ok" THEN SetKey(w, tk, "memory_summary", SummaryOf(d, w.h))
        ELSE SetKey(w, tk, "memory_summary", Absent)

\* outcome: "ok" or "fail" of llm.invoke, read only when the call is made
maybe_update_memory_summary(w, tk, outcome) ==
    LET d == w.d[DictOf(tk)]
    IN  IF ~CompactionDue(d, w.h) THEN w
        ELSE IF outcome = "ok" THEN SetKey(w, tk, "memory_summary", SummaryOf(d, w.h))
        ELSE w

----------------------------------------------------------------------------
(* generation.py: the pieces of generate_with_retries(_async) between its
   suspension points *)

\* mutant: the entries of the other steps are dropped on entry
GenEnterClears(w, tk) ==
    [w EXCEPT !.h[w.d[DictOf(tk)]["retries"].a] = EmptyDict,
              !.h[w.d[DictOf(tk)]["model_used"].a] = EmptyDict]

\* retries = state.setdefault("retries", {}); model_used = state.setdefault(...)
GenEnter(w, tk) ==
    SetDefault(SetDefault(w, tk, "retries", EmptyDict), tk, "model_used", EmptyDict)

\* the primary call returned content
GenPrimaryOk(w, tk, section_key, content, attempts) ==
    SetEntry(SetEntry(SetKey(w, tk, section_key, content),
                      tk, "model_used", section_key, StrV("primary")),
             tk, "retries", section_key, IntV(attempts))

\* mutant: the handler records the count before the increment
GenPrimaryFailStale(w, tk, section_key, attempts) ==
    SetEntry(w, tk, "retries", section_key, IntV(attempts))

\* the primary call raised: attempts += 1; retries[section_key] = attempts
GenPrimaryFail(w, tk, section_key, attempts) ==
    SetEntry(w, tk, "retries", section_key, IntV(attempts + 1))

\* the fallback call returned content
GenFallbackOk(w, tk, section_key, content) ==
    SetEntry(SetKey(w, tk, section_key, content), tk, "model_used", section_key, StrV("fallback"))

\* mutant: the handler of a failed fallback tags the step like a fallback success
GenFallbackFailTagged(w, tk, section_key) ==
    SetEntry(SetKey(w, tk, section_key, SentinelText), tk, "model_used", section_key,
             StrV("fallback"))

\* the fallback call raised
GenFallbackFail(w, tk, section_key) ==
    SetEntry(SetKey(w, tk, section_key, SentinelText), tk, "model_used", section_key, StrV("failed"))

\* mutant: the backoff doubles without a cap
NextBackoffUncapped(ms) == ms * 2

\* backoff_seconds = min(backoff_seconds * 2, 2.0), in milliseconds
NextBackoff(ms) == Min(ms * 2, 2000)

\* mutant: the loop admits one attempt too many
RetryAgainOneMore(attempts, max_retries) == attempts <= max_retries + 1

\* while attempts <= max_retries
RetryAgain(attempts, max_retries) == attempts <= max_retries

\* the events of one invocation, in order: a call of the primary backend, a
\* backoff sleep of ms milliseconds, a call of the fallback backend
CallPrimary == [e |-> "primary", ms |-> 0]
CallFallback == [e |-> "fallback", ms |-> 0]
Sleep(ms) == [e |-> "sleep", ms |-> ms]

\* the call the retry loop makes next
NextCall(attempts, max_retries) ==
    IF RetryAgain(attempts, max_retries) THEN CallPrimary ELSE CallFallback

----------------------------------------------------------------------------
(* workflow.py: the steps *)

HasSearch(step) == step \in {"market_research", "pricing_strategy", "marketing_content"}

\* the keys a step reads with state[...] when it builds its query and prompt
PromptKeys(step) ==
    CASE step = "market_research" -> {"product_name", "target_market"}
      [] step = "product_description" -> {"product_name", "product_details", "target_market"}
      [] step = "pricing_strategy" -> {"product_name", "target_market", "market_research",
                                       "product_details"}
      [] step = "launch_plan" -> {"product_name", "target_market", "market_research"}
      [] step = "marketing_content" -> {"product_name", "target_market", "product_description"}

CanBuildPrompt(d, step) == \A k \in PromptKeys(step) : d[k] # Absent

\* diagrams.py: create_launch_timeline_diagram returns a fixed block of 415
\* characters; launch_plan appends "\n\n--- VISUAL TIMELINE ---\n" and the block
WithDiagram(text) ==
    [text EXCEPT !.len = @ + 441, !.words = @ + 57, !.pad = 0, !.diag = TRUE]

\* json.dumps(parsed, ensure_ascii=False, indent=2) of the object a text holds
DumpText(o) ==
    IF o = "fallback" THEN Text("dumps_fallback", 811, 0, 92, TRUE, FALSE, "fallback")
    ELSE IF o = "P1" THEN Text("dumps_P1", 452, 0, 40, FALSE, FALSE, o)
    ELSE Text("dumps_O1", 1340, 0, 200, FALSE, FALSE, o)

\* the keys of the marketing schema, and the keys of each object of the model
RequiredKeys == {"social_posts", "email_campaigns", "hashtags", "influencer_briefs",
                 "press_release", "content_calendar"}
ObjKeys(o) == IF o = "P1" THEN {"social_posts", "hashtags"} ELSE RequiredKeys

\* isinstance(parsed, dict)
IsDictValue(o) == o \in {"O1", "P1"}

\* marketing_content, after generation: parse the raw text, store the
\* pretty-printed object and the object, or the fallback structure
ParseMarketing(w, tk) ==
    LET raw == GetText(w.d[DictOf(tk)], "marketing_content")
        o == IF IsDictValue(raw.obj) THEN raw.obj ELSE "fallback"
    IN  SetKey(SetKey(w, tk, "marketing_content", DumpText(o)),
               tk, "marketing_content_json", ObjV(o))

\* mutant: a step whose generation failed logs no event
StepBodyLogsSuccess(w, tk, step) ==
    LET d == w.d[DictOf(tk)]
        w1 == CASE step = "market_research" ->
                     SetKey(w, tk, "market_research_quality",
                            StrV(assess_quality(GetText(d, "market_research"),
                                                MARKET_RESEARCH_MIN_CHARS)))
                [] step = "launch_plan" ->
                     SetKey(w, tk, "launch_plan", WithDiagram(d["launch_plan"]))
                [] step = "marketing_content" -> ParseMarketing(w, tk)
                [] OTHER -> w
    IN  IF d[step] = SentinelText THEN w1
        ELSE log_step(w1, tk, step, GetText(w1.d[DictOf(tk)], step))

\* the step's code after generate_with_retries_async returns, up to log_step
StepBody(w, tk, step) ==
    LET d == w.d[DictOf(tk)]
        w1 == CASE step = "market_research" ->
                     SetKey(w, tk, "market_research_quality",
                            StrV(assess_quality(GetText(d, "market_research"),
                                                MARKET_RESEARCH_MIN_CHARS)))
                [] step = "launch_plan" ->
                     SetKey(w, tk, "launch_plan", WithDiagram(d["launch_plan"]))
                [] step = "marketing_content" -> ParseMarketing(w, tk)
                [] OTHER -> w
    IN  log_step(w1, tk, step, GetText(w1.d[DictOf(tk)], step))

----------------------------------------------------------------------------
(* Coroutine frames *)

IdleTask == [step |-> "none", pc |-> "idle", attempts |-> 0, backoff |-> 500,
             web |-> "none", pcalls |-> 0, fcalls |-> 0, hint |-> FALSE]

Frame(step, pc) == [IdleTask EXCEPT !.step = step, !.pc = pc]

Finished(t) == t.pc \in {"done", "raised"}

\* query_hint = state.get("_mr_query_hint"), read by market_research before
\* its first await and used for the search query and for the prompt
QueryHint(d, step) == step = "market_research" /\ d["_mr_query_hint"] # Absent

\* A coroutine runs from its start to its first await.
BeginStep(w, tk, step) ==
    IF HasSearch(step) THEN w
    ELSE IF CanBuildPrompt(w.d[DictOf(tk)], step) THEN GenEnter(w, tk) ELSE w

BeginFrame(w, tk, step) ==
    IF HasSearch(step)
    THEN [Frame(step, "search") EXCEPT !.hint = QueryHint(w.d[DictOf(tk)], step)]
    ELSE IF CanBuildPrompt(w.d[DictOf(tk)], step)
         THEN [Frame(step, "primary") EXCEPT !.pcalls = 1]
         ELSE Frame(step, "raised")

W == World(dicts, heap, wrote)

Commit(w) == /\ dicts' = w.d
             /\ heap' = w.h
             /\ wrote' = w.wr

NoteDone(tk) == IF tk = "main" THEN doneOrder ELSE Append(doneOrder, tk)

\* The step returns: the rest of its body, then maybe_update_memory_summary,
\* whose backend call (made only when compaction is due) ends with outcome co.
Finish(w, tk, co, f) ==
    LET step == tasks[tk].step
        w1 == StepBody(w, tk, step)
        due == CompactionDue(w1.d[DictOf(tk)], w1.h)
    IN  /\ co = "fail" => (due /\ fails + f < MaxFails)
        /\ Commit(maybe_update_memory_summary(w1, tk, co))
        /\ calls' = calls + 1 + (IF due THEN 1 ELSE 0)
        /\ fails' = fails + f + (IF due /\ co = "fail" THEN 1 ELSE 0)
        /\ doneOrder' = NoteDone(tk)

----------------------------------------------------------------------------
(* The pipeline run: workflow.invoke(state), main.py:68-76 *)

InitDict ==
    [k \in Keys |->
        IF k \in IdentityKeys THEN StrV(k)
        ELSE IF k = "max_retries" THEN IntV(1)
        ELSE IF k = "retries" THEN RefV(1)
        ELSE IF k = "model_used" THEN RefV(2)
        ELSE Absent]

InitHeap == [a \in Addrs |-> IF a \in {1, 2} THEN EmptyDict ELSE NoObj]

NoDict == [k \in Keys |-> Absent]

InitGen == [pc |-> "off", key |-> "none", maxr |-> 0, attempts |-> 0, backoff |-> 500,
            pcalls |-> 0, fcalls |-> 0, pfails |-> 0, ffails |-> 0, psucc |-> FALSE,
            slept |-> 0, trace |-> <<>>]

SessionIds == 1..MaxSessions
NoSession == [t |-> "none"]
NeverUsed == [known |-> FALSE, at |-> 0]
UsedAt(t) == [known |-> TRUE, at |-> t]

InitSessions ==
    /\ session_store = [sid \in SessionIds |-> NoSession]
    /\ now = 0
    /\ lastAccess = [sid \in SessionIds |-> NeverUsed]
    /\ lastGet = [t |-> "none"]

Procs == 1..MaxProcs
IdleProc == [pc |-> "idle", op |-> "none", sid |-> 1, key |-> "none", obj |-> NoSession,
             ops |-> 0]

InitRefine == refines = 0 /\ lastRefine = [t |-> "none"]
InitRedis ==
    /\ redis = [sid \in SessionIds |-> NoSession]
    /\ procs = [p \in Procs |-> IdleProc]
    /\ acked = {}
InitMemory == logged = <<>> /\ lastCompact = [t |-> "none"]
InitQuality == q = [pc |-> "off"]
InitSearch == search = [pc |-> "off"]

InitPipeline ==
    /\ dicts = [i \in DictIds |-> IF i = "main" THEN InitDict ELSE NoDict]
    /\ heap = InitHeap
    /\ tasks = [tk \in TaskIds |-> IdleTask]
    /\ node = "market_research"
    /\ mrRuns = 0
    /\ wrote = [tk \in TaskIds |-> {}]
    /\ forkSnap = Deep(InitDict, InitHeap)
    /\ lastJoin = 0
    /\ doneOrder = <<>>
    /\ fails = 0
    /\ calls = 0

Init ==
    /\ InitPipeline /\ gen = InitGen /\ InitSessions
    /\ InitRefine /\ InitRedis /\ InitMemory /\ InitQuality /\ InitSearch

\* The graph enters market_research: the coroutine runs to its first await,
\* the web search.
MRStartReady == node = "market_research" /\ tasks["main"].pc = "idle"

MRStart ==
    /\ MRStartReady
    /\ tasks' = [tasks EXCEPT !["main"] = BeginFrame(W, "main", "market_research")]
    /\ mrRuns' = mrRuns + 1
    /\ Commit(BeginStep(W, "main", "market_research"))
    /\ UNCHANGED <<node, forkSnap, lastJoin, doneOrder, fails, calls, gvars, svars>>

\* The search adapter never raises: it returns formatted results or a
\* placeholder string that embeds the failure reason.
WebSearchOutcomes == {"results", "degraded"}

\* web_search_async returns (results, or the degraded placeholder); the step
\* builds its prompt and enters generate_with_retries_async up to the first
\* primary call.
SearchReturn(tk) ==
    /\ tasks[tk].pc = "search"
    /\ \E res \in WebSearchOutcomes :
         IF CanBuildPrompt(dicts[DictOf(tk)], tasks[tk].step)
         THEN /\ tasks' = [tasks EXCEPT ![tk].pc = "primary", ![tk].web = res,
                                        ![tk].pcalls = 1]
              /\ Commit(GenEnter(W, tk))
         ELSE /\ tasks' = [tasks EXCEPT ![tk].pc = "raised"]
              /\ Commit(W)
    /\ calls' = calls + 1
    /\ UNCHANGED <<node, mrRuns, forkSnap, lastJoin, doneOrder, fails, gvars, svars>>

\* llm.ainvoke returns content: the output is written and the step runs to
\* its end.
PrimaryOk(tk) ==
    /\ tasks[tk].pc = "primary"
    /\ \E content \in StepTexts(tasks[tk].step), co \in {"ok", "fail"} :
         Finish(GenPrimaryOk(W, tk, tasks[tk].step, content, tasks[tk].attempts), tk, co, 0)
    /\ tasks' = [tasks EXCEPT ![tk].pc = "done", ![tk].web = "none"]
    /\ UNCHANGED <<node, mrRuns, forkSnap, lastJoin, gvars, svars>>

\* llm.ainvoke raises: the attempt is counted and the coroutine sleeps.
PrimaryFail(tk) ==
    /\ tasks[tk].pc = "primary"
    /\ fails < MaxFails
    /\ Commit(GenPrimaryFail(W, tk, tasks[tk].step, tasks[tk].attempts))
    /\ tasks' = [tasks EXCEPT ![tk].pc = "sleep", ![tk].attempts = @ + 1]
    /\ fails' = fails + 1
    /\ calls' = calls + 1
    /\ UNCHANGED <<node, mrRuns, forkSnap, lastJoin, doneOrder, gvars, svars>>

\* asyncio.sleep returns: the backoff doubles, and the loop either calls the
\* primary backend again or leaves for the fallback call.
SleepReturn(tk) ==
    /\ tasks[tk].pc = "sleep"
    /\ tasks' = [tasks EXCEPT
                   ![tk].backoff = NextBackoff(@),
                   ![tk].pc = IF RetryAgain(tasks[tk].attempts, STEP_MAX_RETRIES)
                              THEN "primary" ELSE "fallback",
                   ![tk].pcalls = IF RetryAgain(tasks[tk].attempts, STEP_MAX_RETRIES)
                                  THEN @ + 1 ELSE @,
                   ![tk].fcalls = IF RetryAgain(tasks[tk].attempts, STEP_MAX_RETRIES)
                                  THEN @ ELSE @ + 1]
    /\ UNCHANGED <<dicts, heap, wrote, node, mrRuns, forkSnap, lastJoin, doneOrder,
                   fails, calls, gvars, svars>>

\* llm_fallback.ainvoke returns content.
FallbackOk(tk) ==
    /\ tasks[tk].pc = "fallback"
    /\ \E content \in StepTexts(tasks[tk].step), co \in {"ok", "fail"} :
         Finish(GenFallbackOk(W, tk, tasks[tk].step, content), tk, co, 0)
    /\ tasks' = [tasks EXCEPT ![tk].pc = "done", ![tk].web = "none"]
    /\ UNCHANGED <<node, mrRuns, forkSnap, lastJoin, gvars, svars>>

\* llm_fallback.ainvoke raises: the sentinel is written.
FallbackFail(tk) ==
    /\ tasks[tk].pc = "fallback"
    /\ fails < MaxFails
    /\ \E co \in {"ok", "fail"} :
         Finish(GenFallbackFail(W, tk, tasks[tk].step), tk, co, 1)
    /\ tasks' = [tasks EXCEPT ![tk].pc = "done", ![tk].web = "none"]
    /\ UNCHANGED <<node, mrRuns, forkSnap, lastJoin, gvars, svars>>

\* mutant: the cap is compared with <=
RouteLoopsOffByOne(d) ==
    GetStr(d, "market_research_quality", "poor") = "poor"
    /\ GetInt(d, "_mr_retries", 0) <= max_mr_retries

\* mutant: the router ignores the verdict
RouteLoopsAnyVerdict(d) == GetInt(d, "_mr_retries", 0) < max_mr_retries

\* mutant: the router does not count the loop
RouteStateNoCount(d) ==
    IF GetStr(d, "market_research_quality", "poor") = "poor"
       /\ GetInt(d, "_mr_retries", 0) < max_mr_retries
    THEN [d EXCEPT !["_mr_query_hint"] = StrV("broaden keywords and include competitor names")]
    ELSE d

\* mutant: the router counts the loop and sets no hint
RouteStateNoHint(d) ==
    IF GetStr(d, "market_research_quality", "poor") = "poor"
       /\ GetInt(d, "_mr_retries", 0) < max_mr_retries
    THEN [d EXCEPT !["_mr_retries"] = IntV(GetInt(d, "_mr_retries", 0) + 1)]
    ELSE d

\* route_after_market_research: whether it returns "market_research", and the
\* state it leaves.
RouteLoops(d) ==
    GetStr(d, "market_research_quality", "poor") = "poor"
    /\ GetInt(d, "_mr_retries", 0) < max_mr_retries

RouteState(d) ==
    IF RouteLoops(d)
    THEN [d EXCEPT !["_mr_retries"] = IntV(GetInt(d, "_mr_retries", 0) + 1),
                   !["_mr_query_hint"] = StrV("broaden keywords and include competitor names")]
    ELSE d

\* The conditional edge after market_research.
RouteReady == node = "market_research" /\ Finished(tasks["main"])

Route ==
    /\ RouteReady
    /\ node' = IF tasks["main"].pc = "raised" THEN "aborted"
               ELSE IF RouteLoops(dicts["main"]) THEN "market_research"
               ELSE "parallel_phase_1"
    /\ dicts' = [dicts EXCEPT !["main"] = RouteState(@)]
    /\ tasks' = [tasks EXCEPT !["main"] = IdleTask]
    /\ UNCHANGED <<heap, wrote, mrRuns, forkSnap, lastJoin, doneOrder, fails, calls,
                   gvars, svars>>

\* state.copy()
DictCopy(d) == d

\* tasks = [first(state.copy()), second(state.copy())]; asyncio.gather starts
\* both coroutines, each running to its first await.
ForkGroup(first, second) ==
    LET w0 == [W EXCEPT !.d["c1"] = DictCopy(dicts["main"]),
                        !.d["c2"] = DictCopy(dicts["main"]),
                        !.wr = [tk \in TaskIds |-> {}]]
        f1 == BeginFrame(w0, "t1", first)
        w1 == BeginStep(w0, "t1", first)
        f2 == BeginFrame(w1, "t2", second)
        w2 == BeginStep(w1, "t2", second)
    IN  /\ tasks' = [tasks EXCEPT !["t1"] = f1, !["t2"] = f2]
        /\ Commit(w2)
        /\ forkSnap' = Deep(dicts["main"], heap)
        /\ lastJoin' = 0
        /\ doneOrder' = <<>>

RECURSIVE MergeKeys(_, _, _)
\* for key, value in result.items(): if key not in excluded: state[key] = value
MergeKeys(state, result, keys) ==
    IF keys = {} THEN state
    ELSE LET k == CHOOSE x \in keys : TRUE
         IN MergeKeys(IF result[k] # Absent THEN [state EXCEPT ![k] = result[k]] ELSE state,
                      result, keys \ {k})

\* mutant: the merge runs as soon as one member has completed
JoinReadyAny == Finished(tasks["t1"]) \/ Finished(tasks["t2"])

\* results = await asyncio.gather(*tasks); for result in results: merge
JoinReady == Finished(tasks["t1"]) /\ Finished(tasks["t2"])

MergeGroup(group, excluded, next) ==
    /\ node' = IF tasks["t1"].pc = "raised" \/ tasks["t2"].pc = "raised"
               THEN "aborted" ELSE next
    /\ dicts' = [dicts EXCEPT !["main"] =
                    IF tasks["t1"].pc = "raised" \/ tasks["t2"].pc = "raised" THEN @
                    ELSE MergeKeys(MergeKeys(@, dicts["c1"], Keys \ excluded),
                                   dicts["c2"], Keys \ excluded)]
    /\ tasks' = [tasks EXCEPT !["t1"] = IdleTask, !["t2"] = IdleTask]
    /\ lastJoin' = group

\* mutant: the second merge also skips launch_plan
Phase2ExcludedTooMany ==
    {"product_name", "product_details", "target_market", "market_research",
     "product_description", "pricing_strategy", "launch_plan"}

Phase1Excluded == {"product_name", "product_details", "target_market", "market_research"}
Phase2Excluded ==
    {"product_name", "product_details", "target_market", "market_research",
     "product_description", "pricing_strategy"}

\* parallel_phase_1 up to its await
ForkReady(phase) == node = phase /\ tasks["t1"].pc = "idle" /\ tasks["t2"].pc = "idle"

Fork1 ==
    /\ ForkReady("parallel_phase_1")
    /\ ForkGroup("product_description", "pricing_strategy")
    /\ UNCHANGED <<node, mrRuns, fails, calls, gvars, svars>>

\* parallel_phase_1 after gather returns
Join1 ==
    /\ node = "parallel_phase_1"
    /\ JoinReady
    /\ MergeGroup(1, Phase1Excluded, "parallel_phase_2")
    /\ UNCHANGED <<heap, wrote, mrRuns, forkSnap, doneOrder, fails, calls, gvars, svars>>

\* parallel_phase_2 up to its await
Fork2 ==
    /\ ForkReady("parallel_phase_2")
    /\ ForkGroup("launch_plan", "marketing_content")
    /\ UNCHANGED <<node, mrRuns, fails, calls, gvars, svars>>

\* parallel_phase_2 after gather returns; the graph ends
Join2 ==
    /\ node = "parallel_phase_2"
    /\ JoinReady
    /\ MergeGroup(2, Phase2Excluded, "END")
    /\ UNCHANGED <<heap, wrote, mrRuns, forkSnap, doneOrder, fails, calls, gvars, svars>>

Next ==
    \/ MRStart
    \/ Route
    \/ Fork1
    \/ Join1
    \/ Fork2
    \/ Join2
    \/ \E tk \in TaskIds : SearchReturn(tk)
    \/ \E tk \in TaskIds : PrimaryOk(tk)
    \/ \E tk \in TaskIds : PrimaryFail(tk)
    \/ \E tk \in TaskIds : SleepReturn(tk)
    \/ \E tk \in TaskIds : FallbackOk(tk)
    \/ \E tk \in TaskIds : FallbackFail(tk)

Spec == Init /\ [][Next]_vars

----------------------------------------------------------------------------
(* One invocation of generate_with_retries(prompt, section_key, state,
   max_retries), generation.py:6-33, on a fresh pipeline state.  The frame
   holds the function's locals (attempts, backoff) and, as history, the calls
   made, the failures seen and the time slept. *)

InitGenCall ==
    /\ InitPipeline
    /\ InitSessions
    /\ InitRefine /\ InitRedis /\ InitMemory /\ InitQuality /\ InitSearch
    /\ \E key \in Steps, n \in 0..MaxGenRetries :
          gen = [InitGen EXCEPT !.pc = "start", !.key = key, !.maxr = n]

\* the function is entered: the setdefaults, then the first primary call
GenBegin ==
    /\ gen.pc = "start"
    /\ Commit(GenEnter(W, "main"))
    /\ gen' = [gen EXCEPT !.pc = IF RetryAgain(0, gen.maxr) THEN "primary" ELSE "fallback",
                          !.pcalls = IF RetryAgain(0, gen.maxr) THEN 1 ELSE 0,
                          !.fcalls = IF RetryAgain(0, gen.maxr) THEN 0 ELSE 1,
                          !.trace = <<NextCall(0, gen.maxr)>>]
    /\ UNCHANGED <<tasks, node, mrRuns, forkSnap, lastJoin, doneOrder, fails, calls, svars>>

\* llm.invoke returns content
GenPrimaryReturn ==
    /\ gen.pc = "primary"
    /\ \E content \in BackendTexts :
          Commit(GenPrimaryOk(W, "main", gen.key, content, gen.attempts))
    /\ gen' = [gen EXCEPT !.pc = "returned", !.psucc = TRUE]
    /\ UNCHANGED <<tasks, node, mrRuns, forkSnap, lastJoin, doneOrder, fails, calls, svars>>

\* llm.invoke raises: count the attempt, sleep, double the backoff, loop
GenPrimaryRaise ==
    /\ gen.pc = "primary"
    /\ Commit(GenPrimaryFail(W, "main", gen.key, gen.attempts))
    /\ gen' = [gen EXCEPT
                 !.attempts = @ + 1,
                 !.pfails = @ + 1,
                 !.slept = @ + gen.backoff,
                 !.backoff = NextBackoff(@),
                 !.pc = IF RetryAgain(gen.attempts + 1, gen.maxr) THEN "primary" ELSE "fallback",
                 !.pcalls = IF RetryAgain(gen.attempts + 1, gen.maxr) THEN @ + 1 ELSE @,
                 !.fcalls = IF RetryAgain(gen.attempts + 1, gen.maxr) THEN @ ELSE @ + 1,
                 !.trace = @ \o <<Sleep(gen.backoff), NextCall(gen.attempts + 1, gen.maxr)>>]
    /\ UNCHANGED <<tasks, node, mrRuns, forkSnap, lastJoin, doneOrder, fails, calls, svars>>

\* llm_fallback.invoke returns content
GenFallbackReturn ==
    /\ gen.pc = "fallback"
    /\ \E content \in BackendTexts : Commit(GenFallbackOk(W, "main", gen.key, content))
    /\ gen' = [gen EXCEPT !.pc = "returned"]
    /\ UNCHANGED <<tasks, node, mrRuns, forkSnap, lastJoin, doneOrder, fails, calls, svars>>

\* llm_fallback.invoke raises
GenFallbackRaise ==
    /\ gen.pc = "fallback"
    /\ Commit(GenFallbackFail(W, "main", gen.key))
    /\ gen' = [gen EXCEPT !.pc = "returned", !.ffails = @ + 1]
    /\ UNCHANGED <<tasks, node, mrRuns, forkSnap, lastJoin, doneOrder, fails, calls, svars>>

NextGen ==
    \/ GenBegin
    \/ GenPrimaryReturn
    \/ GenPrimaryRaise
    \/ GenFallbackReturn
    \/ GenFallbackRaise

SpecGen == InitGenCall /\ [][NextGen]_vars

----------------------------------------------------------------------------
(* sessions.py: SessionManager over the in-process session_store (no
   external cache configured: _redis is None).  Time is in hours. *)

RefinableKeys == {"pricing_strategy", "launch_plan"}

\* the clock advances by 12 or 13 hours, so that idle times of exactly 24
\* hours, less and more all occur
TickHours == {12, 13}

Tick ==
    /\ \E d \in TickHours : now + d <= MaxTime /\ now' = now + d
    /\ UNCHANGED <<session_store, lastAccess, lastGet, pvars, gvars, evars>>

\* create_session: a fresh identifier (uuid4) and a new entry
create_session(store, sid, data, t) ==
    [store EXCEPT ![sid] = [t |-> "session", created_at |-> t, last_accessed |-> t,
                            data |-> data, history |-> <<>>]]

CreateSession ==
    /\ \E sid \in SessionIds :
          /\ lastAccess[sid] = NeverUsed
          /\ \A other \in SessionIds : other < sid => lastAccess[other] # NeverUsed
          /\ session_store' = create_session(session_store, sid, {}, now)
          /\ lastAccess' = [lastAccess EXCEPT ![sid] = UsedAt(now)]
    /\ UNCHANGED <<now, lastGet, pvars, gvars, evars>>

\* mutant: a read leaves last_accessed as it was
get_session_stale(store, sid, t) == store

\* get_session: refreshes last_accessed of a stored session and returns it
get_session(store, sid, t) ==
    IF store[sid] # NoSession THEN [store EXCEPT ![sid].last_accessed = t] ELSE store

GetSession(sid) ==
    /\ session_store' = get_session(session_store, sid, now)
    /\ lastGet' = [t |-> "get", sid |-> sid, known |-> lastAccess[sid] # NeverUsed,
                   idle |-> now - lastAccess[sid].at,
                   found |-> session_store'[sid] # NoSession]
    /\ lastAccess' = IF session_store[sid] # NoSession
                     THEN [lastAccess EXCEPT ![sid] = UsedAt(now)] ELSE lastAccess
    /\ UNCHANGED <<now, pvars, gvars, evars>>

\* update_session(session_id, data, action="update"): data is the dict of
\* updates; the history record keeps that dict, whose values are the objects
\* the caller passed (a list is kept by reference)
update_session(store, sid, data, action, t) ==
    IF store[sid] # NoSession
    THEN [store EXCEPT ![sid].data = @ \cup DOMAIN data,
                       ![sid].last_accessed = t,
                       ![sid].history = Append(@, [timestamp |-> t, action |-> action,
                                                    data |-> data])]
    ELSE store

UpdateSession(sid) ==
    /\ session_store[sid] # NoSession => Len(session_store[sid].history) < MaxHist
    /\ \E key \in RefinableKeys :
          session_store' = update_session(session_store, sid,
                                          [k \in {key} |-> StrV("update")], "update", now)
    /\ lastAccess' = IF session_store[sid] # NoSession
                     THEN [lastAccess EXCEPT ![sid] = UsedAt(now)] ELSE lastAccess
    /\ UNCHANGED <<now, lastGet, pvars, gvars, evars>>

\* cleanup_old_sessions: cutoff = now - 24h; drop what was last accessed before it
Expired(session, t) == session.last_accessed < t - SESSION_TTL_HOURS

cleanup_old_sessions(store, t) ==
    [sid \in SessionIds |->
        IF store[sid] # NoSession /\ Expired(store[sid], t) THEN NoSession ELSE store[sid]]

Cleanup ==
    /\ session_store' = cleanup_old_sessions(session_store, now)
    /\ session_store' # session_store
    /\ UNCHANGED <<now, lastAccess, lastGet, pvars, gvars, evars>>

NextSess ==
    \/ Tick
    \/ CreateSession
    \/ Cleanup
    \/ \E sid \in SessionIds : GetSession(sid)
    \/ \E sid \in SessionIds : UpdateSession(sid)

SpecSess == Init /\ [][NextSess]_vars

----------------------------------------------------------------------------
(* Properties *)

Main == dicts["main"]
ModelUsed(s) == heap[Main["model_used"].a].m[s]
Retries(s) == heap[Main["retries"].a].m[s]
MainEvents == RecentEvents(Main, heap)
HasEvent(s) == \E i \in 1..Len(MainEvents) : MainEvents[i].section = s
Members == {"t1", "t2"}
Group1 == {"product_description", "pricing_strategy"}
Group2 == {"launch_plan", "marketing_content"}
GroupSteps(g) == IF g = 1 THEN <<"product_description", "pricing_strategy">>
                 ELSE <<"launch_plan", "marketing_content">>
PastMarketResearch == node \in {"parallel_phase_1", "parallel_phase_2", "END"}

\* C1: whatever verdicts the quality gate returns, market_research executes
\* at most 3 times, and once its third execution has been routed the
\* orchestrator is past market_research (at the first parallel group or later).
C1_MarketResearchLoopCap ==
    /\ mrRuns <= 3
    /\ (mrRuns = 3 /\ tasks["main"].pc = "idle") => PastMarketResearch

\* reached: three executions, the verdict still poor, the run at group 1
C1_Witness ==
    /\ mrRuns = 3
    /\ node = "parallel_phase_1"
    /\ Main["market_research_quality"] = StrV("poor")

\* C2: a step of group 1 runs only after the market-research loop has
\* terminated (the router has left the loop, market_research is written and
\* its coroutine is gone); a step of group 2 runs only after both steps of
\* group 1 have completed and their results are merged into the state.
C2_StageOrdering ==
    \A tk \in Members :
        /\ tasks[tk].step \in Group1 =>
              /\ node = "parallel_phase_1"
              /\ tasks["main"].pc = "idle"
              /\ mrRuns >= 1
              /\ Main["market_research"] # Absent
              /\ ~(GetStr(Main, "market_research_quality", "poor") = "poor"
                   /\ GetInt(Main, "_mr_retries", 0) < 2)
        /\ tasks[tk].step \in Group2 =>
              /\ node = "parallel_phase_2"
              /\ \A s \in Group1 :
                    /\ Main[s] # Absent
                    /\ ModelUsed(s) # Absent
                    /\ HasEvent(s)

\* reached: both steps of group 2 in flight
C2_Witness ==
    /\ tasks["t1"].step = "launch_plan" /\ tasks["t1"].pc = "primary"
    /\ tasks["t2"].step = "marketing_content" /\ tasks["t2"].pc = "search"

\* C3: the locations written by the two members of a parallel group are
\* disjoint (a nested entry retries[step] or model_used[step], an appended
\* event and a top-level key each count as a location).
C3_DisjointWriteSets ==
    \A r1 \in wrote["t1"], r2 \in wrote["t2"] : ~(r1.key = r2.key /\ r1.sub = r2.sub)

\* whether the orchestrator state holds what write record r wrote
Holds(r) ==
    IF r.key \in {"retries", "model_used"} /\ r.sub # "-"
    THEN heap[Main[r.key].a].m[r.sub] = r.val
    ELSE IF r.key = "recent_events" /\ r.sub # "-"
    THEN \E i \in 1..Len(MainEvents) : MainEvents[i] = r.val
    ELSE Main[r.key] = r.val

\* after a join, the merged state holds every value a member wrote
C4_MergeKeepsEveryWrite ==
    lastJoin # 0 => \A tk \in Members : \A r \in wrote[tk] : Holds(r)

\* after a join, the merged event log does not depend on which member
\* completed first: the group's two events are in program order
C4_MergeOrderIndependent ==
    lastJoin # 0 =>
        /\ Len(MainEvents) >= 2
        /\ MainEvents[Len(MainEvents) - 1].section = GroupSteps(lastJoin)[1]
        /\ MainEvents[Len(MainEvents)].section = GroupSteps(lastJoin)[2]

\* C4: after the join of a parallel group the merged state contains every
\* value either member wrote, and it is the same for every completion order.
C4_MergeCompleteAndDeterministic ==
    C4_MergeKeepsEveryWrite /\ C4_MergeOrderIndependent

InFlight == node \in {"parallel_phase_1", "parallel_phase_2"} /\ tasks["t1"].pc # "idle"

\* C5: while a group is in flight, the orchestrator's state is what it was at
\* the fork, and a member's copy differs from the fork state only at keys
\* that this member wrote.
C5_IndependentCopies ==
    InFlight =>
        /\ Deep(Main, heap) = forkSnap
        /\ \A tk \in Members : \A k \in Keys :
              Deep(dicts[DictOf(tk)], heap)[k] # forkSnap[k]
                  => \E r \in wrote[tk] : r.key = k

C7_SentinelOnTotalFailure ==
    (gen.pfails = gen.maxr + 1 /\ gen.ffails = 1) =>
        /\ gen.pc = "returned"
        /\ Main[gen.key] = SentinelText
        /\ ModelUsed(gen.key) = StrV("failed")

\* reached: every call of an invocation with max_retries = 1 failed
C7_Witness == gen.pc = "returned" /\ gen.maxr = 1 /\ gen.pfails = 2 /\ gen.ffails = 1

\* the backoff sleeps of a trace, in order
Sleeps(trace) == SelectSeq(trace, LAMBDA ev : ev.e = "sleep")

RECURSIVE SumMs(_)
SumMs(s) == IF s = <<>> THEN 0 ELSE Head(s).ms + SumMs(Tail(s))

\* C25: in one invocation of generate_with_retries every sleep comes right
\* after a primary call that failed and before the next call; the sleep after
\* the i-th failure (i = 0, 1, ...) lasts min(0.5 * 2^i, 2.0) seconds, so the
\* sleeps never decrease and never exceed 2.0 seconds; and the time slept in
\* all is the sum of these terms over the failures counted in retries.
C25_BackoffSchedule ==
    LET tr == gen.trace
        sl == Sleeps(tr)
    IN  /\ \A j \in 1..Len(tr) :
              tr[j].e = "sleep" =>
                  /\ j > 1 /\ tr[j - 1].e = "primary"
                  /\ j < Len(tr) /\ tr[j + 1].e \in {"primary", "fallback"}
        /\ Len(sl) = gen.pfails
        /\ \A i \in 1..Len(sl) : sl[i].ms = Min(500 * 2 ^ (i - 1), 2000)
        /\ \A i \in 1..Len(sl) : sl[i].ms <= 2000 /\ (i > 1 => sl[i - 1].ms <= sl[i].ms)
        /\ gen.slept = SumMs(sl)
        /\ gen.pc = "returned" =>
              Retries(gen.key) = IntV(gen.pfails)

\* reached: four primary failures, slept 0.5 + 1.0 + 2.0 + 2.0 seconds
C25_Witness ==
    /\ gen.pc = "returned" /\ gen.maxr = 3 /\ gen.pfails = 4
    /\ Sleeps(gen.trace) = <<Sleep(500), Sleep(1000), Sleep(2000), Sleep(2000)>>
    /\ gen.slept = 5500

\* C8: no step raises and the run is never aborted; at the end all five
\* output fields hold non-empty text, every step has run (its model_used
\* entry and its event exist), and an output is degraded (the sentinel, or
\* for marketing_content the fallback structure) only by its own step's failure.
C8_FaultIsolation ==
    /\ node # "aborted"
    /\ \A tk \in TaskIds : tasks[tk].pc # "raised"
    /\ node = "END" =>
          \A s \in Steps :
             /\ Main[s] # Absent
             /\ Main[s].t = "text"
             /\ Main[s].len > 0
             /\ ModelUsed(s) # Absent
             /\ HasEvent(s)
             /\ s # "marketing_content" =>
                   (Main[s].body = "sentinel" <=> ModelUsed(s) = StrV("failed"))
             /\ s = "marketing_content" =>
                   (ModelUsed(s) = StrV("failed") => Main[s] = DumpText("fallback"))

\* reached: product_description failed for good, the run still ended and its
\* sibling and the downstream steps produced their outputs
C8_Witness ==
    /\ node = "END"
    /\ ModelUsed("product_description") = StrV("failed")
    /\ Main["pricing_strategy"].body = "good_json"
    /\ Main["launch_plan"].body = "good_json"

TaskRank(t) ==
    CASE t.pc = "idle" -> 0
      [] t.pc = "search" -> 1
      [] t.pc = "primary" -> 2 + 2 * t.attempts
      [] t.pc = "sleep" -> 1 + 2 * t.attempts
      [] t.pc = "fallback" -> 20
      [] OTHER -> 30

NodeRank ==
    CASE node = "market_research" -> 0
      [] node = "parallel_phase_1" -> 1
      [] node = "parallel_phase_2" -> 2
      [] OTHER -> 3

\* a variant of the run: every step of the orchestrator or of a coroutine
\* increases it
Measure ==
    1000 * NodeRank + 100 * GetInt(Main, "_mr_retries", 0)
    + TaskRank(tasks["main"]) + TaskRank(tasks["t1"]) + TaskRank(tasks["t2"])

\* some step can be taken: a coroutine is at an await that returns, or the
\* orchestrator can start, route, fork or join
NotStuck ==
    \/ node = "END"
    \/ MRStartReady
    \/ RouteReady
    \/ ForkReady("parallel_phase_1")
    \/ ForkReady("parallel_phase_2")
    \/ (node \in {"parallel_phase_1", "parallel_phase_2"} /\ JoinReady)
    \/ \E tk \in TaskIds : tasks[tk].pc \in {"search", "primary", "sleep", "fallback"}

\* the backend calls of one run: five per execution of market_research
\* (search, two primary, fallback, compaction), eighteen for the other steps
MaxCallsPerRun == 5 * (max_mr_retries + 1) + 18

\* C9: every run reaches the terminal state: before the end some step can
\* always be taken once the pending external call returns, every step
\* increases a bounded variant (no loop in routing or retry), and the run
\* makes a bounded number of backend calls.
C9_Termination ==
    /\ [](NotStuck /\ Measure <= 3300 /\ calls <= MaxCallsPerRun)
    /\ [][Measure' > Measure]_vars

\* reached: the end of a run whose market-research loop was exhausted
C9_Witness == node = "END" /\ mrRuns = 3 /\ lastJoin = 2

\* C10: without an external store, a get_session less than 24 hours after the
\* session's last access returns the session, and one strictly more than 24
\* hours after it returns None.
C10_SessionTTL ==
    (lastGet.t = "get" /\ lastGet.known) =>
        /\ lastGet.idle < SESSION_TTL_HOURS => lastGet.found
        /\ lastGet.idle > SESSION_TTL_HOURS => ~lastGet.found

----------------------------------------------------------------------------
(* Claims on the marketing step, the quality gate, the memory compactor, the
   search adapter and the refine handler *)

\* C15: once the marketing_content step has run (in the copy it ran on, and
\* in the orchestrator state after the merge), marketing_content_json is a
\* structured object that has all six keys of the schema, whatever the
\* backend answered.
C15_MarketingJsonWellFormed ==
    /\ \A tk \in Members :
          (tasks[tk].step = "marketing_content" /\ tasks[tk].pc = "done") =>
              dicts[DictOf(tk)]["marketing_content_json"].t = "obj"
    /\ node = "END" => Main["marketing_content_json"].t = "obj"
    /\ \A i \in DictIds :
          dicts[i]["marketing_content_json"] # Absent =>
              RequiredKeys \subseteq ObjKeys(dicts[i]["marketing_content_json"].id)

----------------------------------------------------------------------------
(* main.py: the refine handler over the in-process session store.  The
   handler is a coroutine without an await (its backend calls are the
   blocking ones), so one request runs from its first line to its last
   without interleaving with another request of the same process. *)

\* main.py:130  generate_with_retries(..., max_retries=1)
REFINE_MAX_RETRIES == 1

\* section_to_refine is any string of the request: the step names and, as one
\* key that is not a step, product_name
RefineSections == Steps \cup {"product_name"}

\* what a backend answers to a refinement prompt
RefinedText == Text("refined", 640, 0, 104, FALSE, FALSE, "none")
RefineTexts == {RefinedText}

\* the outcomes of the backend calls of one generate_with_retries invocation:
\* the first pf primary calls raise; the fallback call, made when every
\* primary call raised, returns or raises
GenOutcomes(max_retries) ==
    {[pf |-> n, fb |-> "ok"] : n \in 0..(max_retries + 1)}
    \cup {[pf |-> max_retries + 1, fb |-> "fail"]}

RECURSIVE GenLoop(_, _, _, _, _, _, _)
\* the retry loop of generate_with_retries from a given attempt count on
GenLoop(w, tk, section_key, max_retries, attempts, out, content) ==
    IF RetryAgain(attempts, max_retries)
    THEN IF attempts < out.pf
         THEN GenLoop(GenPrimaryFail(w, tk, section_key, attempts), tk, section_key,
                      max_retries, attempts + 1, out, content)
         ELSE GenPrimaryOk(w, tk, section_key, content, attempts)
    ELSE IF out.fb = "ok" THEN GenFallbackOk(w, tk, section_key, content)
         ELSE GenFallbackFail(w, tk, section_key)

\* generate_with_retries(prompt, section_key, state, max_retries)
generate_with_retries(w, tk, section_key, max_retries, out, content) ==
    GenLoop(GenEnter(w, tk), tk, section_key, max_retries, 0, out, content)

\* files.py: the generated files depend on state['product_name'] only
generate_launch_files(d) == [t |-> "files", name |-> d["product_name"]]

\* the empty string as a value of memory_summary
EmptySummary == [t |-> "summary", len |-> 0, corpus |-> <<>>, seen |-> <<>>]

\* The state a completed run hands to create_session (main.py:76-79): every
\* step answered by the primary backend at its first attempt.
FinalState ==
    [InitDict EXCEPT
       !["market_research"] = GoodJsonText,
       !["market_research_quality"] = StrV("good"),
       !["product_description"] = GoodJsonText,
       !["pricing_strategy"] = GoodJsonText,
       !["launch_plan"] = WithDiagram(GoodJsonText),
       !["marketing_content"] = DumpText("O1"),
       !["marketing_content_json"] = ObjV("O1"),
       !["recent_events"] = RefV(3),
       !["memory_summary"] =
           [t |-> "summary", len |-> 600, corpus |-> <<"good_json", "good_json", "">>,
            seen |-> <<"market_research", "product_description", "pricing_strategy",
                       "launch_plan", "marketing_content">>],
       !["downloadable_files"] = generate_launch_files(InitDict)]

FinalHeap ==
    [a \in Addrs |->
        IF a = 1 THEN [t |-> "dict", m |-> [s \in SectionKeys |->
                           IF s \in Steps THEN IntV(0) ELSE Absent]]
        ELSE IF a = 2 THEN [t |-> "dict", m |-> [s \in SectionKeys |->
                                IF s \in Steps THEN StrV("primary") ELSE Absent]]
        ELSE IF a = 3 THEN [t |-> "list", items |->
                 << Event("market_research", GoodJsonText),
                    Event("product_description", GoodJsonText),
                    Event("pricing_strategy", GoodJsonText),
                    Event("launch_plan", WithDiagram(GoodJsonText)),
                    Event("marketing_content", DumpText("O1")) >>]
        ELSE NoObj]

PresentKeys(d) == {k \in Keys : d[k] # Absent}

\* the session whose data dict the model holds in dicts["main"]
RunSid == 1
\* the identifiers a request may name: the allocated ones and one that is not
RequestIds == SessionIds \cup {MaxSessions + 1}

Stored(store, sid) == sid \in DOMAIN store /\ store[sid] # NoSession

\* main.py:79: the finished run is stored as a session
InitRefineSession ==
    /\ dicts = [i \in DictIds |-> IF i = "main" THEN FinalState ELSE NoDict]
    /\ heap = FinalHeap
    /\ tasks = [tk \in TaskIds |-> IdleTask]
    /\ node = "END"
    /\ mrRuns = 1
    /\ wrote = [tk \in TaskIds |-> {}]
    /\ forkSnap = Deep(FinalState, FinalHeap)
    /\ lastJoin = 2
    /\ doneOrder = <<"t1", "t2">>
    /\ fails = 0
    /\ calls = 0
    /\ gen = InitGen
    /\ now = 0
    /\ session_store = create_session([sid \in SessionIds |-> NoSession], RunSid,
                                      PresentKeys(FinalState), 0)
    /\ lastAccess = [sid \in SessionIds |-> IF sid = RunSid THEN UsedAt(0) ELSE NeverUsed]
    /\ lastGet = [t |-> "none"]
    /\ InitRefine /\ InitRedis /\ InitMemory /\ InitQuality /\ InitSearch

\* mutant: the event is logged with the content the section had before
RefineDataLogsOld(w, section, out, content, co) ==
    LET w1 == generate_with_retries(w, "main", section, REFINE_MAX_RETRIES, out, content)
        refined_content == GetText(w1.d["main"], section)
        w2 == SetKey(w1, "main", section, refined_content)
        w3 == log_step(w2, "main", section, GetText(w.d["main"], section))
    IN  maybe_update_memory_summary(w3, "main", co)

\* main.py:118-135: the data dict of the session is refined in place
RefineData(w, section, out, content, co) ==
    LET w1 == generate_with_retries(w, "main", section, REFINE_MAX_RETRIES, out, content)
        refined_content == GetText(w1.d["main"], section)
        w2 == SetKey(w1, "main", section, refined_content)
        w3 == log_step(w2, "main", section, refined_content)
    IN  maybe_update_memory_summary(w3, "main", co)

\* session_store[sid]["data"].update({section: refined_content,
\* "recent_events": data.get("recent_events", []), "memory_summary":
\* data.get("memory_summary", "")}) on the dict the values were read from
RefineDataUpdate(w) ==
    IF w.d["main"]["memory_summary"] = Absent
    THEN [w EXCEPT !.d["main"]["memory_summary"] = EmptySummary]
    ELSE w

\* main.py:143-146: the files are regenerated and stored by a second update
NeedsFiles(section) == section \in {"launch_plan", "marketing_content"}

RefineFiles(w, section) ==
    IF NeedsFiles(section)
    THEN [w EXCEPT !.d["main"]["downloadable_files"] = generate_launch_files(w.d["main"])]
    ELSE w

RefineStore(store, sid, section, d, t) ==
    LET s1 == update_session(get_session(store, sid, t), sid,
                             [k \in {section, "recent_events", "memory_summary"} |-> d[k]],
                             "update", t)
    IN  IF NeedsFiles(section)
        THEN update_session(s1, sid, [k \in {"downloadable_files"} |-> d[k]], "update", t)
        ELSE s1

\* the backend calls that raised in one generate_with_retries invocation
GenFailures(out) == out.pf + (IF out.fb = "fail" THEN 1 ELSE 0)

\* main.py:113-166 for a session that is stored: the section is generated
\* with outcome out (content when a backend answers), the summary call ends
\* with co, and the session is updated
RefineFound(sid, section, out, content, co) ==
    LET w1 == RefineData(W, section, out, content, co)
        w2 == RefineFiles(RefineDataUpdate(w1), section)
        failed == GenFailures(out) + (IF co = "fail" THEN 1 ELSE 0)
    IN  /\ fails + failed <= MaxFails
        /\ fails' = fails + failed
        /\ Commit(w2)
        /\ session_store' = RefineStore(session_store, sid, section, w2.d["main"], now)
        /\ lastAccess' = [lastAccess EXCEPT ![sid] = UsedAt(now)]
        /\ lastRefine' =
             [t |-> "refine", sid |-> sid, found |-> TRUE, status |-> 200,
              section |-> section,
              content |-> GetText(w2.d["main"], section),
              histBefore |-> session_store[sid].history,
              before |-> Deep(dicts["main"], heap)]

\* POST /refine
Refine(sid) ==
    /\ refines < MaxRefines
    /\ refines' = refines + 1
    /\ IF Stored(session_store, sid)
       THEN \E section \in RefineSections, out \in GenOutcomes(REFINE_MAX_RETRIES),
               content \in RefineTexts, co \in {"ok", "fail"} :
               RefineFound(sid, section, out, content, co)
       ELSE \* the 404 raised at main.py:116 is caught at main.py:168 and
            \* answered as a 500
            /\ lastRefine' = [t |-> "refine", sid |-> sid, found |-> FALSE, status |-> 500]
            /\ UNCHANGED <<dicts, heap, wrote, session_store, lastAccess, fails>>
    /\ UNCHANGED <<tasks, node, mrRuns, forkSnap, lastJoin, doneOrder, calls,
                   gvars, now, lastGet, cvars, mvars, q, search>>

\* GET /session/{id}/history
GetHistory(sid) ==
    /\ IF Stored(session_store, sid)
       THEN /\ session_store' = get_session(session_store, sid, now)
            /\ lastGet' = [t |-> "history", sid |-> sid, found |-> TRUE, status |-> 200]
            /\ lastAccess' = [lastAccess EXCEPT ![sid] = UsedAt(now)]
       ELSE /\ lastGet' = [t |-> "history", sid |-> sid, found |-> FALSE, status |-> 404]
            /\ UNCHANGED <<session_store, lastAccess>>
    /\ UNCHANGED <<now, pvars, gvars, evars>>

NextRefine ==
    \/ \E sid \in RequestIds : Refine(sid)
    \/ \E sid \in RequestIds : GetHistory(sid)

SpecRefine == InitRefineSession /\ [][NextRefine]_vars

\* C11: a refine request on an existing session, whatever key it names,
\* leaves the session's history one record longer than it found it.
C11_RefineAppendsOneRecord ==
    (lastRefine.t = "refine" /\ lastRefine.found) =>
        Len(session_store[lastRefine.sid].history) = Len(lastRefine.histBefore) + 1

\* C13: product_name, product_details and target_market keep their initial
\* values in the orchestrator state (the session's data after the run) and in
\* every group copy, through steps, merges and refine requests.
C13_IdentityFieldsFrozen ==
    \A i \in DictIds : \A k \in IdentityKeys :
        dicts[i][k] # Absent => dicts[i][k] = InitDict[k]

\* C22: a refine or history request for an identifier that is not in the
\* store is answered as not found (status 404), and leaves no session under
\* that identifier.
C22_NotFoundSurfaced ==
    /\ (lastRefine.t = "refine" /\ ~lastRefine.found) =>
           /\ lastRefine.status = 404
           /\ ~Stored(session_store, lastRefine.sid)
    /\ (lastGet.t = "history" /\ ~lastGet.found) =>
           /\ lastGet.status = 404
           /\ ~Stored(session_store, lastGet.sid)

\* C37: in every state after the marketing_content step, a refine of
\* marketing_content included, the marketing_content text is the
\* serialization of marketing_content_json.
C37_MarketingTextIsSerialization ==
    Main["marketing_content"] # Absent =>
        /\ Main["marketing_content_json"] # Absent
        /\ Main["marketing_content"] = DumpText(Main["marketing_content_json"].id)

\* C38: after a refine of a step on a stored session has returned, the
\* session's value for the step is the content returned to the caller (the
\* text a backend generated, or the sentinel when both backends failed), the
\* last entry of the event log is for that step with the preview of that
\* content, and no other step output of the session has changed.
C38_RefineFrame ==
    (lastRefine.t = "refine" /\ lastRefine.found /\ lastRefine.section \in Steps) =>
        LET section == lastRefine.section
            content == lastRefine.content
        IN  /\ section \in session_store[lastRefine.sid].data
            /\ Main[section] = content
            /\ content \in RefineTexts \cup {SentinelText}
            /\ (content = SentinelText) <=> (ModelUsed(section) = StrV("failed"))
            /\ Len(MainEvents) >= 1
            /\ MainEvents[Len(MainEvents)] = Event(section, content)
            /\ \A s \in Steps \ {section} : Main[s] = lastRefine.before[s]

\* both backends failed on a refine of pricing_strategy: the sentinel is
\* stored, returned and logged
C38_Witness ==
    /\ lastRefine.t = "refine" /\ lastRefine.found
    /\ lastRefine.section = "pricing_strategy" /\ lastRefine.content = SentinelText
    /\ Main["pricing_strategy"] = SentinelText
    /\ MainEvents[Len(MainEvents)] = Event("pricing_strategy", SentinelText)
    /\ Main["launch_plan"] = WithDiagram(GoodJsonText)

\* C39: in every pipeline and session state where market_research is set,
\* market_research_quality is the verdict assess_quality gives the stored
\* market_research text, also after a refine of market_research.
C39_VerdictOfStoredText ==
    Main["market_research"] # Absent =>
        Main["market_research_quality"] =
            StrV(assess_quality(Main["market_research"], MARKET_RESEARCH_MIN_CHARS))

\* the history of a session as a reader sees it: every record with the
\* current content of the objects its data refers to
HistoryView(store, h, sid) ==
    LET hist == store[sid].history
        Seen(v) == IF v.t = "ref" THEN h[v.a] ELSE v
    IN  [i \in 1..Len(hist) |->
            [timestamp |-> hist[i].timestamp, action |-> hist[i].action,
             data |-> [k \in DOMAIN hist[i].data |-> Seen(hist[i].data[k])]]]

IsPrefix(s, t) == Len(s) <= Len(t) /\ s = SubSeq(t, 1, Len(s))

\* C23: the history of a session is empty when the session is created, and
\* while the session is stored every step leaves the history it had as a
\* prefix of the history it has afterwards (no record is removed, reordered
\* or rewritten).
C23_HistoryAppendOnly ==
    [][\A sid \in SessionIds :
          /\ (~Stored(session_store, sid) /\ Stored(session_store', sid)) =>
                 session_store'[sid].history = <<>>
          /\ (Stored(session_store, sid) /\ Stored(session_store', sid)) =>
                 IsPrefix(HistoryView(session_store, heap, sid),
                          HistoryView(session_store', heap', sid))]_vars

----------------------------------------------------------------------------
(* sessions.py with the external cache configured (_redis is set): every
   operation reads the serialized session with one cache call and writes it
   back with another.  Several server processes share the cache; a process
   executes one operation at a time, and the operations of different
   processes interleave at the cache calls.  The in-process session_store
   stays empty in this mode: create_session writes to the cache only. *)

CacheKeys == RefinableKeys

\* json.dumps(payload) of create_session
NewDoc(t) ==
    [t |-> "session", created_at |-> t, last_accessed |-> t,
     data |-> [k \in CacheKeys |-> <<"run">>], history |-> <<>>]

\* the value an update writes: it names the process and the operation
UpdateValue(p) == <<"update", p, procs[p].ops>>

\* a cache call may raise while the budget of faults lasts
CacheOutcomes == IF fails < MaxCacheFaults THEN {"ok", "raise"} ELSE {"ok"}

RECURSIVE OpsOf(_)
\* the operations the processes of a set have begun
OpsOf(ps) ==
    IF ps = {} THEN 0
    ELSE LET p == CHOOSE x \in ps : TRUE
         IN procs[p].ops + (IF procs[p].pc = "idle" THEN 0 ELSE 1) + OpsOf(ps \ {p})

CanStart(p) == procs[p].pc = "idle" /\ OpsOf(Procs) < MaxOps

\* the operation of process p has returned
Returned(p) == [procs EXCEPT ![p] = [IdleProc EXCEPT !.ops = procs[p].ops + 1]]

\* create_session: setex of the new payload; an exception of the cache is
\* swallowed and the identifier is returned in either case
CacheCreate(p) ==
    /\ CanStart(p)
    /\ \E sid \in SessionIds, oc \in CacheOutcomes :
          /\ lastAccess[sid] = NeverUsed
          /\ \A other \in SessionIds : other < sid => lastAccess[other] # NeverUsed
          /\ redis' = IF oc = "ok" THEN [redis EXCEPT ![sid] = NewDoc(now)] ELSE redis
          /\ fails' = IF oc = "ok" THEN fails ELSE fails + 1
          /\ lastAccess' = [lastAccess EXCEPT ![sid] = UsedAt(now)]
    /\ procs' = Returned(p)
    /\ UNCHANGED <<dicts, heap, tasks, node, mrRuns, wrote, forkSnap, lastJoin, doneOrder,
                   calls, gvars, session_store, now, lastGet, rvars, acked, mvars, q, search>>

\* update_session, sessions.py:58-68: raw = _redis.get(...); the document is
\* decoded and changed in the process
CacheUpdateGet(p, sid) ==
    /\ CanStart(p)
    /\ \E key \in CacheKeys, oc \in CacheOutcomes :
          IF oc = "raise"
          THEN \* except: pass; the in-process store does not hold the session
               /\ procs' = Returned(p)
               /\ fails' = fails + 1
               /\ acked' = acked \cup {[sid |-> sid, key |-> key, val |-> UpdateValue(p),
                                        stored |-> FALSE]}
          ELSE IF redis[sid] = NoSession
          THEN \* if not raw: return
               /\ procs' = Returned(p)
               /\ UNCHANGED <<fails, acked>>
          ELSE /\ procs' = [procs EXCEPT ![p].pc = "update_setex", ![p].op = "update",
                              ![p].sid = sid, ![p].key = key,
                              ![p].obj = [redis[sid] EXCEPT
                                            !.data[key] = UpdateValue(p),
                                            !.last_accessed = now,
                                            !.history = Append(@,
                                                [timestamp |-> now, action |-> "update",
                                                 data |-> <<key, UpdateValue(p)>>])]]
               /\ UNCHANGED <<fails, acked>>
    /\ UNCHANGED <<dicts, heap, tasks, node, mrRuns, wrote, forkSnap, lastJoin, doneOrder,
                   calls, gvars, session_store, now, lastAccess, lastGet, rvars, redis,
                   mvars, q, search>>

\* update_session, sessions.py:69-70: _redis.setex(..., json.dumps(obj)); return
CacheUpdateSetex(p) ==
    /\ procs[p].pc = "update_setex"
    /\ \E oc \in CacheOutcomes :
          /\ redis' = IF oc = "ok" THEN [redis EXCEPT ![procs[p].sid] = procs[p].obj]
                      ELSE redis
          /\ fails' = IF oc = "ok" THEN fails ELSE fails + 1
          /\ acked' = acked \cup {[sid |-> procs[p].sid, key |-> procs[p].key,
                                   val |-> procs[p].obj.data[procs[p].key],
                                   stored |-> (oc = "ok")]}
    /\ procs' = Returned(p)
    /\ UNCHANGED <<dicts, heap, tasks, node, mrRuns, wrote, forkSnap, lastJoin, doneOrder,
                   calls, gvars, session_store, now, lastAccess, lastGet, rvars,
                   mvars, q, search>>

\* get_session, sessions.py:40-44: raw = _redis.get(...); last_accessed is
\* set in the decoded document
CacheGetGet(p, sid) ==
    /\ CanStart(p)
    /\ \E oc \in CacheOutcomes :
          IF oc = "raise" \/ redis[sid] = NoSession
          THEN \* returns None (after an exception: from the empty in-process store)
               /\ procs' = Returned(p)
               /\ fails' = IF oc = "raise" THEN fails + 1 ELSE fails
          ELSE /\ procs' = [procs EXCEPT ![p].pc = "get_setex", ![p].op = "get",
                              ![p].sid = sid,
                              ![p].obj = [redis[sid] EXCEPT !.last_accessed = now]]
               /\ UNCHANGED fails
    /\ UNCHANGED <<dicts, heap, tasks, node, mrRuns, wrote, forkSnap, lastJoin, doneOrder,
                   calls, gvars, session_store, now, lastAccess, lastGet, rvars, redis,
                   acked, mvars, q, search>>

\* get_session, sessions.py:45-46: the whole document is written back
CacheGetSetex(p) ==
    /\ procs[p].pc = "get_setex"
    /\ \E oc \in CacheOutcomes :
          /\ redis' = IF oc = "ok" THEN [redis EXCEPT ![procs[p].sid] = procs[p].obj]
                      ELSE redis
          /\ fails' = IF oc = "ok" THEN fails ELSE fails + 1
    /\ procs' = Returned(p)
    /\ UNCHANGED <<dicts, heap, tasks, node, mrRuns, wrote, forkSnap, lastJoin, doneOrder,
                   calls, gvars, session_store, now, lastAccess, lastGet, rvars, acked,
                   mvars, q, search>>

NextCache ==
    \/ \E p \in Procs : CacheCreate(p)
    \/ \E p \in Procs, sid \in SessionIds : CacheUpdateGet(p, sid)
    \/ \E p \in Procs : CacheUpdateSetex(p)
    \/ \E p \in Procs, sid \in SessionIds : CacheGetGet(p, sid)
    \/ \E p \in Procs : CacheGetSetex(p)

SpecCache == Init /\ [][NextCache]_vars

\* C12: two update_session executions on one session never lose an update,
\* however their cache calls interleave: every update that has returned
\* after writing the session has its record in the stored history and its
\* field in the stored data (a later update of the same field may have
\* replaced the value).
C12_NoLostUpdate ==
    \A a \in acked :
        a.stored =>
            /\ redis[a.sid] # NoSession
            /\ \E i \in 1..Len(redis[a.sid].history) :
                  redis[a.sid].history[i].data = <<a.key, a.val>>
            /\ redis[a.sid].data[a.key] # <<"run">>

\* C35: an identifier create_session has returned resolves to a session: with
\* the external cache, the document get_session reads is stored, and until an
\* update is written it holds the created data and an empty history, also
\* when a cache call of create_session has failed.
C35_CreateReadRoundTrip ==
    \A sid \in SessionIds :
        lastAccess[sid].known =>
            /\ redis[sid] # NoSession
            /\ (\A a \in acked : a.sid = sid => ~a.stored) =>
                  /\ redis[sid].data = NewDoc(0).data
                  /\ redis[sid].history = <<>>

\* the update_session executions that are between their two cache calls
UpdatesInFlight == {p \in Procs : procs[p].pc = "update_setex"}

\* C36: with the external cache, a get_session interleaved with one
\* update_session on the same identifier never loses the update: once the
\* only update has returned after writing the session, and whatever
\* get_session executions ran around it, the stored session holds the
\* update's data field and its history record.
C36_GetKeepsUpdate ==
    \A a \in acked :
        (a.stored /\ acked = {a} /\ UpdatesInFlight = {}) =>
            /\ redis[a.sid] # NoSession
            /\ redis[a.sid].data[a.key] = a.val
            /\ \E i \in 1..Len(redis[a.sid].history) :
                  redis[a.sid].history[i].data = <<a.key, a.val>>

----------------------------------------------------------------------------
(* memory.py: log_step and maybe_update_memory_summary applied to a state
   dict, as the steps and the refine handler apply them *)

\* the (section_key, content) pairs passed to log_step
LogInputs == {<<"pricing_strategy", GoodJsonText>>, <<"launch_plan", ShortProseText>>}

StepSeq == <<"market_research", "product_description", "pricing_strategy",
             "launch_plan", "marketing_content">>

\* the log_step calls behind an event log that is one entry short of its
\* capacity: the five of a run, then refinements
PriorLogCalls ==
    [i \in 1..(MAX_RECENT_EVENTS - 1) |->
        <<StepSeq[((i - 1) % 5) + 1], IF i <= 5 THEN GoodJsonText ELSE RefinedText>>]

PriorEvents == [i \in 1..Len(PriorLogCalls) |-> Event(PriorLogCalls[i][1], PriorLogCalls[i][2])]

\* summaries the backend may have returned earlier
SummaryOfLen(n) == [t |-> "summary", len |-> n, corpus |-> <<>>, seen |-> <<>>]
ShortSummary == SummaryOfLen(600)
LongSummary == SummaryOfLen(1300)

InitMemoryState ==
    /\ \E mr \in {Absent, ShortProseText, GoodJsonText}, ps \in {Absent, ShortProseText},
          ms \in {Absent, ShortSummary, LongSummary}, prior \in BOOLEAN :
          /\ dicts = [i \in DictIds |->
                        IF i = "main"
                        THEN [InitDict EXCEPT !["market_research"] = mr,
                                              !["pricing_strategy"] = ps,
                                              !["memory_summary"] = ms,
                                              !["recent_events"] =
                                                  IF prior THEN RefV(3) ELSE Absent]
                        ELSE NoDict]
          /\ heap = [InitHeap EXCEPT ![3] = IF prior
                                            THEN [t |-> "list", items |-> PriorEvents]
                                            ELSE NoObj]
          /\ logged = IF prior THEN PriorLogCalls ELSE <<>>
    /\ lastCompact = [t |-> "none"]
    /\ tasks = [tk \in TaskIds |-> IdleTask]
    /\ node = "market_research"
    /\ mrRuns = 0
    /\ wrote = [tk \in TaskIds |-> {}]
    /\ forkSnap = Deep(InitDict, InitHeap)
    /\ lastJoin = 0
    /\ doneOrder = <<>>
    /\ fails = 0
    /\ calls = 0
    /\ gen = InitGen
    /\ InitSessions /\ InitRefine /\ InitRedis /\ InitQuality /\ InitSearch

\* log_step(state, section_key, content)
MemLog ==
    /\ calls < MaxLogCalls
    /\ \E inp \in LogInputs :
          /\ Commit(log_step(W, "main", inp[1], inp[2]))
          /\ logged' = Append(logged, inp)
    /\ calls' = calls + 1
    /\ UNCHANGED <<tasks, node, mrRuns, forkSnap, lastJoin, doneOrder, fails, gvars,
                   session_store, now, lastAccess, lastGet, rvars, cvars, lastCompact,
                   q, search>>

\* maybe_update_memory_summary(state); the backend call, when it is made,
\* returns a summary or raises
MemCompact ==
    /\ \E co \in {"ok", "fail"} :
          LET w1 == maybe_update_memory_summary(W, "main", co)
          IN  /\ Commit(w1)
              /\ lastCompact' =
                    [t |-> "compact", existing |-> SummaryLen(dicts["main"]),
                     corpus |-> CorpusLen(dicts["main"], heap),
                     called |-> CompactionDue(dicts["main"], heap), outcome |-> co,
                     dictBefore |-> dicts["main"], heapBefore |-> heap,
                     dictAfter |-> w1.d["main"], heapAfter |-> w1.h]
    /\ UNCHANGED <<tasks, node, mrRuns, forkSnap, lastJoin, doneOrder, fails, calls,
                   gvars, session_store, now, lastAccess, lastGet, rvars, cvars, logged,
                   q, search>>

NextMemory == MemLog \/ MemCompact

SpecMemory == InitMemoryState /\ [][NextMemory]_vars

\* the event log_step is to append for a (section_key, content) pair
ExpectedEvent(inp) ==
    [section |-> inp[1],
     preview |-> [body |-> inp[2].body, diag |-> inp[2].diag,
                  len |-> IF inp[2].len < PREVIEW_CHARS THEN inp[2].len ELSE PREVIEW_CHARS]]

\* C14: after k log_step calls the event log holds min(k, 12) entries: the
\* events of the most recent calls, in the order of the calls, each with the
\* first 240 characters of its content as preview.
C14_EventLogCapped ==
    LET ev == RecentEvents(dicts["main"], heap)
        k == Len(logged)
        n == IF k < MAX_RECENT_EVENTS THEN k ELSE MAX_RECENT_EVENTS
    IN  /\ Len(ev) <= MAX_RECENT_EVENTS
        /\ Len(ev) = n
        /\ \A i \in 1..n : ev[i] = ExpectedEvent(logged[k - n + i])

\* reached: fourteen calls, so that the two oldest events were evicted, with
\* a long and a short content among the latest
C14_Witness ==
    /\ Len(logged) = MAX_RECENT_EVENTS + 2
    /\ Len(RecentEvents(dicts["main"], heap)) = MAX_RECENT_EVENTS
    /\ logged[Len(logged)] = <<"launch_plan", ShortProseText>>
    /\ logged[Len(logged) - 1] = <<"pricing_strategy", GoodJsonText>>

\* C18: maybe_update_memory_summary leaves the state alone and calls no
\* backend exactly when the existing summary and the assembled corpus
\* together are shorter than 1200 characters; otherwise it calls the backend.
C18_CompactThreshold ==
    lastCompact.t = "compact" =>
        /\ lastCompact.called <=>
              (lastCompact.existing + lastCompact.corpus >= SUMMARY_MIN_CHARS)
        /\ ~lastCompact.called => lastCompact.dictAfter = lastCompact.dictBefore

\* C19: when the compaction backend call raises, maybe_update_memory_summary
\* returns with the state as it found it: memory_summary and every other
\* field, nested objects included, are unchanged.
C19_CompactionFailureSwallowed ==
    (lastCompact.t = "compact" /\ lastCompact.called /\ lastCompact.outcome = "fail") =>
        /\ lastCompact.dictAfter = lastCompact.dictBefore
        /\ lastCompact.heapAfter = lastCompact.heapBefore

\* reached: the backend call failed while a summary existed
C19_Witness ==
    /\ lastCompact.t = "compact" /\ lastCompact.called /\ lastCompact.outcome = "fail"
    /\ lastCompact.existing > 0
    /\ dicts["main"]["memory_summary"] = lastCompact.dictBefore["memory_summary"]

----------------------------------------------------------------------------
(* quality.py: assess_quality applied to texts.  A text is a sequence of
   tokens: "sp" is one whitespace character, "word" five letters without
   whitespace, "fail" the failure indicator "api error:", "FAIL" the same
   phrase in mixed case ("API Error:"), "PH" the placeholder phrase
   "Lorem Ipsum".  Tokens that follow each other without an "sp" form one
   word; a phrase holds one blank of its own. *)

Tokens == {"sp", "word", "fail", "FAIL", "PH"}

TokenLen(tok) ==
    CASE tok = "sp" -> 1
      [] tok = "word" -> 5
      [] tok = "PH" -> 11
      [] OTHER -> 10

\* str.lower() of a token
LowerToken(tok) ==
    CASE tok = "FAIL" -> "fail"
      [] tok = "PH" -> "ph"
      [] OTHER -> tok

RECURSIVE TokenSeqs(_)
\* the token sequences of at most n tokens
TokenSeqs(n) ==
    IF n = 0 THEN {<<>>}
    ELSE LET shorter == TokenSeqs(n - 1)
         IN shorter \cup {Append(s, tok) : s \in shorter, tok \in Tokens}

RECURSIVE CharLen(_)
\* len(text)
CharLen(s) == IF s = <<>> THEN 0 ELSE TokenLen(Head(s)) + CharLen(Tail(s))

RECURSIVE StripLeft(_)
StripLeft(s) == IF s # <<>> /\ Head(s) = "sp" THEN StripLeft(Tail(s)) ELSE s

RECURSIVE StripRight(_)
StripRight(s) ==
    IF s # <<>> /\ s[Len(s)] = "sp" THEN StripRight(SubSeq(s, 1, Len(s) - 1)) ELSE s

\* text.strip()
Strip(s) == StripRight(StripLeft(s))

\* blob.lower()
Lower(s) == [i \in 1..Len(s) |-> LowerToken(s[i])]

\* any(phrase in blob_lower ...) for the phrase of a token
Contains(s, tok) == \E i \in 1..Len(s) : s[i] = tok

\* len(blob.split()): the runs of tokens between whitespace, and one more
\* for the blank inside each phrase
WordCount(s) ==
    Cardinality({i \in 1..Len(s) : s[i] # "sp" /\ (i = 1 \/ s[i - 1] = "sp")})
    + Cardinality({i \in 1..Len(s) : s[i] \in {"fail", "FAIL", "PH"}})

\* (text or ""): None is read as the empty text
OrEmpty(arg) == IF arg.null THEN <<>> ELSE arg.text

\* what assess_quality computes from its argument before it decides
TextOf(arg) ==
    LET text == OrEmpty(arg)
        blob == Strip(text)
    IN  Text(text, CharLen(text), CharLen(text) - CharLen(blob), WordCount(blob),
             Contains(Lower(blob), "fail"), Contains(Lower(blob), "ph"), "none")

\* the minimum_characters arguments explored
QualityMins == {0, 6, 11, 13}

\* the content appended to an assessed text
AppendSeqs == TokenSeqs(2) \ {<<>>}

InitQualityCall ==
    /\ InitPipeline /\ gen = InitGen /\ InitSessions
    /\ InitRefine /\ InitRedis /\ InitMemory /\ InitSearch
    /\ \E text \in TokenSeqs(MaxTokens), null \in BOOLEAN, m \in QualityMins :
          /\ null => text = <<>>
          /\ q = [pc |-> "input", text |-> text, null |-> null, min |-> m,
                  verdict |-> "none", prev |-> "none", added |-> <<>>]

\* assess_quality(text, minimum_characters)
QAssess ==
    /\ q.pc = "input"
    /\ q' = [q EXCEPT !.pc = "assessed",
                      !.verdict = assess_quality(TextOf(q), q.min)]
    /\ UNCHANGED <<pvars, gvars, session_store, now, lastAccess, lastGet, rvars, cvars,
                   mvars, search>>

\* content is appended to the assessed text and the result is assessed
QAppend ==
    /\ q.pc = "assessed"
    /\ q.prev = "none"
    /\ \E c \in AppendSeqs :
          LET longer == [q EXCEPT !.text = OrEmpty(q) \o c, !.null = FALSE]
          IN  q' = [longer EXCEPT !.prev = q.verdict, !.added = c,
                                  !.verdict = assess_quality(TextOf(longer), q.min)]
    /\ UNCHANGED <<pvars, gvars, session_store, now, lastAccess, lastGet, rvars, cvars,
                   mvars, search>>

NextQuality == QAssess \/ QAppend

SpecQuality == InitQualityCall /\ [][NextQuality]_vars

\* C16: the verdict of assess_quality is "poor" exactly when the trimmed
\* text is shorter than minimum_characters, or its lower-cased form holds a
\* failure indicator or a placeholder phrase, or it has fewer than
\* minimum_characters \div 6 words, and "good" otherwise; None and the empty
\* text are poor for every positive minimum.
C16_QualityPolicy ==
    q.pc = "assessed" =>
        LET blob == Strip(OrEmpty(q))
            poor == \/ CharLen(blob) < q.min
                    \/ \E i \in 1..Len(blob) : LowerToken(blob[i]) = "fail"
                    \/ \E i \in 1..Len(blob) : LowerToken(blob[i]) = "ph"
                    \/ WordCount(blob) < q.min \div 6
        IN  /\ q.verdict \in {"good", "poor"}
            /\ q.verdict = "poor" <=> poor
            /\ (OrEmpty(q) = <<>> /\ q.min >= 1) => q.verdict = "poor"

\* reached: a text long enough and free of phrases is poor for its word count
C16_Witness ==
    /\ q.pc = "assessed" /\ q.prev = "none"
    /\ q.text = <<"word", "word", "word">> /\ q.min = 13 /\ q.verdict = "poor"

\* C17: when a text assessed "good" is extended by content without a failure
\* indicator or placeholder phrase, the extended text is assessed "good".
C17_QualityMonotone ==
    (q.pc = "assessed" /\ q.prev = "good"
        /\ \A i \in 1..Len(q.added) : q.added[i] \in {"sp", "word"})
    => q.verdict = "good"

\* reached: a good text was extended by a word and is still good
C17_Witness ==
    /\ q.pc = "assessed" /\ q.prev = "good" /\ q.min = 11
    /\ q.added = <<"word">> /\ q.verdict = "good"

----------------------------------------------------------------------------
(* The search adapter (search.py).  A provider response is a transport     *)
(* error raised by requests.post, or an HTTP status with a body; a body is *)
(* text that is not JSON, or a JSON value.  The returned string is kept by *)
(* its parts: the header with the query and the joined items, or one of    *)
(* the two placeholders with the reason it embeds.                         *)

MaxOrganic == 4

DEFAULT_MAX_RESULTS == 5
TEST_MAX_RESULTS == 3

TransportErrors == {"ConnectionError", "Timeout", "InvalidHeader"}
Statuses == {200, 201, 404, 500}

OrganicShapes ==
    {[p |-> "absent"], [p |-> "null"], [p |-> "strings"]}
        \cup [p : {"list"}, n : 0..MaxOrganic]
KgShapes == {"absent", "null", "nodesc", "desc"}
AbShapes == {"absent", "null", "noanswer", "empty", "answer"}

JsonObjects == [j : {"object"}, organic : OrganicShapes, kg : KgShapes, ab : AbShapes]
Bodies == {[j |-> "notjson"], [j |-> "null"], [j |-> "number"], [j |-> "array"],
           [j |-> "string"]} \cup JsonObjects

Responses == [t : {"error"}, exc : TransportErrors]
                 \cup [t : {"http"}, status : Statuses, body : Bodies]

SearchQueries ==
    [step : {"market_research"}, hint : BOOLEAN]
        \cup [step : {"pricing_strategy", "marketing_content"}, hint : {FALSE}]
TestQuery == [step |-> "test-search", hint |-> FALSE]

Raise(exc) == [raised |-> TRUE, exc |-> exc]
Return(v) == [raised |-> FALSE, value |-> v]

SearchResults(query, items) == [kind |-> "results", query |-> query, items |-> items]
ApiError(status, text) == [kind |-> "api_error", status |-> status, text |-> text]
Unavailable(reason) == [kind |-> "unavailable", reason |-> reason]
Propagated(exc) == [kind |-> "raised", exc |-> exc]

\* the entries of data['organic'][:max_results], in provider order
OrganicEntries(n, max_results) ==
    [i \in 1..(IF n < max_results THEN n ELSE max_results) |-> [e |-> "entry", i |-> i]]

Insert0(item, results) == <<item>> \o results

\* the body of the try block of web_search for a 200 response whose body
\* decoded to a JSON object
FormatObject(query, max_results, data) ==
    IF data.organic.p = "null" THEN Raise("TypeError")
    ELSE IF data.organic.p = "strings" THEN Raise("AttributeError")
    ELSE IF data.kg = "null" THEN Raise("TypeError")
    ELSE IF data.ab = "null" THEN Raise("AttributeError")
    ELSE LET r0 == IF data.organic.p = "list"
                   THEN OrganicEntries(data.organic.n, max_results) ELSE <<>>
             r1 == IF data.kg = "desc" THEN Insert0([e |-> "overview"], r0) ELSE r0
             r2 == IF data.ab = "answer" THEN Insert0([e |-> "answer"], r1) ELSE r1
             kept == IF Len(r2) < max_results THEN Len(r2) ELSE max_results
         IN  Return(SearchResults(query, SubSeq(r2, 1, kept)))

\* the try block of web_search
SearchAttempt(query, max_results, resp) ==
    IF resp.t = "error" THEN Raise(resp.exc)
    ELSE IF resp.status # 200 THEN Return(ApiError(resp.status, resp.body))
    ELSE IF resp.body.j = "notjson" THEN Raise("JSONDecodeError")
    ELSE IF resp.body.j \in {"null", "number"} THEN Raise("TypeError")
    ELSE IF resp.body.j \in {"array", "string"} THEN Return(SearchResults(query, <<>>))
    ELSE FormatObject(query, max_results, resp.body)

\* web_search without its except clause
web_search_unguarded(query, max_results, resp) ==
    LET a == SearchAttempt(query, max_results, resp)
    IN  IF a.raised THEN Propagated(a.exc) ELSE a.value

\* web_search(query, max_results) when the provider answers resp
web_search(query, max_results, resp) ==
    LET a == SearchAttempt(query, max_results, resp)
    IN  IF a.raised THEN Unavailable(a.exc) ELSE a.value

\* web_search_async(query): the adapter's contract on the event loop
web_search_async(query, resp) == web_search(query, DEFAULT_MAX_RESULTS, resp)

InitSearchCall ==
    /\ InitPipeline /\ gen = InitGen /\ InitSessions
    /\ InitRefine /\ InitRedis /\ InitMemory /\ InitQuality
    /\ search = [pc |-> "idle"]

\* a step with a web search builds its query and awaits web_search_async
StepSearchStart ==
    /\ search.pc = "idle"
    /\ \E qy \in SearchQueries, resp \in Responses :
          search' = [pc |-> "search", query |-> qy, resp |-> resp]
    /\ UNCHANGED <<pvars, gvars, session_store, now, lastAccess, lastGet, rvars, cvars,
                   mvars, q>>

\* the search returns into the step, which builds its prompt around the
\* returned text and enters generate_with_retries_async
StepSearchReturn ==
    /\ search.pc = "search"
    /\ LET r == web_search_async(search.query, search.resp)
       IN  search' = IF r.kind = "raised"
                     THEN [pc |-> "raised", query |-> search.query,
                           resp |-> search.resp, result |-> r]
                     ELSE [pc |-> "generate", query |-> search.query,
                           resp |-> search.resp, result |-> r,
                           prompt |-> [step |-> search.query.step, web_data |-> r]]
    /\ UNCHANGED <<pvars, gvars, session_store, now, lastAccess, lastGet, rvars, cvars,
                   mvars, q>>

\* GET /test-search
TestSearch ==
    /\ search.pc = "idle"
    /\ \E resp \in Responses :
          LET r == web_search(TestQuery, TEST_MAX_RESULTS, resp)
          IN  search' = [pc |-> "tested", query |-> TestQuery, resp |-> resp,
                         result |-> r,
                         status |-> IF r.kind = "raised" THEN "error" ELSE "success"]
    /\ UNCHANGED <<pvars, gvars, session_store, now, lastAccess, lastGet, rvars, cvars,
                   mvars, q>>

NextSearch == StepSearchStart \/ StepSearchReturn \/ TestSearch

SpecSearch == InitSearchCall /\ [][NextSearch]_vars

\* a body that does not decode as JSON
Malformed(body) == body.j = "notjson"

\* a JSON body whose members have the wrong type for the adapter's reads
WrongTyped(body) ==
    \/ body.j \in {"null", "number"}
    \/ /\ body.j = "object"
       /\ \/ body.organic.p \in {"null", "strings"}
          \/ body.kg = "null"
          \/ body.ab = "null"

SearchReturned == search.pc \in {"generate", "tested", "raised"}

\* C20: the search adapter never raises.  For a transport error the result
\* is the "unavailable" placeholder embedding the error; for a status other
\* than 200 it is the "API error" placeholder embedding the status and the
\* response text; for a 200 response whose body is not JSON (or is JSON of
\* the wrong type for the adapter's reads) it is the "unavailable"
\* placeholder embedding the error; and the calling step goes on to
\* generation with the returned text in its prompt.
C20_SearchNeverRaises ==
    /\ search.pc # "raised"
    /\ SearchReturned =>
         LET r == search.result
             resp == search.resp
         IN  /\ r.kind \in {"results", "api_error", "unavailable"}
             /\ resp.t = "error" => r = Unavailable(resp.exc)
             /\ (resp.t = "http" /\ resp.status # 200) =>
                    r = ApiError(resp.status, resp.body)
             /\ (resp.t = "http" /\ resp.status = 200 /\ Malformed(resp.body)) =>
                    r = Unavailable("JSONDecodeError")
             /\ (resp.t = "http" /\ resp.status = 200 /\ WrongTyped(resp.body)) =>
                    r.kind = "unavailable"
    /\ search.pc = "generate" => search.prompt.web_data = search.result
    /\ search.pc = "tested" => search.status = "success"

C20_Witness ==
    /\ search.pc = "generate"
    /\ search.query.step = "market_research"
    /\ search.resp.t = "http" /\ search.resp.status = 200
    /\ Malformed(search.resp.body)
    /\ search.result = Unavailable("JSONDecodeError")
    /\ search.prompt.web_data = search.result

\* the max_results of the call that returned
ReturnedMaxResults ==
    IF search.pc = "tested" THEN TEST_MAX_RESULTS ELSE DEFAULT_MAX_RESULTS

\* a 200 response whose body is an object with a list of organic results
SuccessfulSearch ==
    /\ search.pc \in {"generate", "tested"}
    /\ search.resp.t = "http" /\ search.resp.status = 200
    /\ search.resp.body.j = "object"
    /\ search.resp.body.organic.p = "list"
    /\ search.result.kind = "results"

\* C21: on a successful search with k organic results the output lists the
\* quick answer first (when there is one), then the overview (when there is
\* one), then exactly min(k, max_results) result entries in provider order;
\* a quick answer or an overview does not reduce the number of entries.
C21_SearchListing ==
    SuccessfulSearch =>
        LET data == search.resp.body
            k == data.organic.n
            m == ReturnedMaxResults
            head == (IF data.ab = "answer" THEN <<[e |-> "answer"]>> ELSE <<>>)
                      \o (IF data.kg = "desc" THEN <<[e |-> "overview"]>> ELSE <<>>)
        IN  search.result.items = head \o OrganicEntries(k, m)

----------------------------------------------------------------------------
(* generation.py: generate_with_retries_async beside generate_with_retries. *)
(* The synchronous function runs on the orchestrator dict (frame gen); the  *)
(* asynchronous one then runs as task t1 on the dict c1, with the same      *)
(* section key and max_retries, and its backend calls end the way the       *)
(* synchronous function's calls ended (a call the synchronous function did  *)
(* not make may end either way).                                            *)

AsyncFrame(key) ==
    [step |-> key, pc |-> "start", attempts |-> 0, backoff |-> 500, web |-> "none",
     pcalls |-> 0, fcalls |-> 0, trace |-> <<>>]

PairDict ==
    [InitDict EXCEPT !["retries"] = RefV(3), !["model_used"] = RefV(4)]

InitGenPair ==
    /\ dicts = [i \in DictIds |-> IF i = "main" THEN InitDict
                                  ELSE IF i = "c1" THEN PairDict ELSE NoDict]
    /\ heap = [a \in Addrs |-> IF a \in {1, 2, 3, 4} THEN EmptyDict ELSE NoObj]
    /\ node = "market_research"
    /\ mrRuns = 0
    /\ wrote = [tk \in TaskIds |-> {}]
    /\ forkSnap = Deep(InitDict, InitHeap)
    /\ lastJoin = 0
    /\ doneOrder = <<>>
    /\ fails = 0
    /\ calls = 0
    /\ InitSessions
    /\ InitRefine /\ InitRedis /\ InitMemory /\ InitQuality /\ InitSearch
    /\ \E key \in Steps, n \in 0..MaxGenRetries :
          /\ gen = [InitGen EXCEPT !.pc = "start", !.key = key, !.maxr = n]
          /\ tasks = [tk \in TaskIds |-> IF tk = "t1" THEN AsyncFrame(key) ELSE IdleTask]

ATask == tasks["t1"]

\* the n-th primary call ends as the synchronous function's n-th did
PrimaryMayRaise(n) == n <= gen.pfails \/ n > gen.pcalls
PrimaryMayReturn(n) == (gen.psucc /\ n = gen.pfails + 1) \/ n > gen.pcalls
FallbackMayRaise == gen.ffails = 1 \/ gen.fcalls = 0
FallbackMayReturn == (gen.fcalls = 1 /\ gen.ffails = 0) \/ gen.fcalls = 0

\* the content the backend returned to the synchronous function
SameContent == IF Main[gen.key] = Absent THEN BackendTexts ELSE {Main[gen.key]}

\* the coroutine is entered: the setdefaults, then the first awaited call
AGenBegin ==
    /\ gen.pc = "returned"
    /\ ATask.pc = "start"
    /\ Commit(GenEnter(W, "t1"))
    /\ tasks' = [tasks EXCEPT
                   !["t1"].pc = IF RetryAgain(0, gen.maxr) THEN "primary" ELSE "fallback",
                   !["t1"].pcalls = IF RetryAgain(0, gen.maxr) THEN 1 ELSE 0,
                   !["t1"].fcalls = IF RetryAgain(0, gen.maxr) THEN 0 ELSE 1,
                   !["t1"].trace = <<NextCall(0, gen.maxr)>>]
    /\ UNCHANGED <<node, mrRuns, forkSnap, lastJoin, doneOrder, fails, calls, gvars, svars>>

\* await llm.ainvoke returns content
APrimaryReturn ==
    /\ ATask.pc = "primary"
    /\ PrimaryMayReturn(ATask.pcalls)
    /\ \E content \in SameContent :
          Commit(GenPrimaryOk(W, "t1", ATask.step, content, ATask.attempts))
    /\ tasks' = [tasks EXCEPT !["t1"].pc = "returned"]
    /\ UNCHANGED <<node, mrRuns, forkSnap, lastJoin, doneOrder, fails, calls, gvars, svars>>

\* await llm.ainvoke raises: the attempt is counted and the coroutine
\* awaits asyncio.sleep(backoff_seconds)
APrimaryRaise ==
    /\ ATask.pc = "primary"
    /\ PrimaryMayRaise(ATask.pcalls)
    /\ Commit(GenPrimaryFail(W, "t1", ATask.step, ATask.attempts))
    /\ tasks' = [tasks EXCEPT !["t1"].pc = "sleep",
                              !["t1"].attempts = @ + 1,
                              !["t1"].trace = Append(@, Sleep(ATask.backoff))]
    /\ UNCHANGED <<node, mrRuns, forkSnap, lastJoin, doneOrder, fails, calls, gvars, svars>>

\* mutant: the sleep returns and the backoff stays as it was
ASleepReturnSameBackoff ==
    /\ ATask.pc = "sleep"
    /\ tasks' = [tasks EXCEPT
                   !["t1"].pc = IF RetryAgain(ATask.attempts, gen.maxr)
                                THEN "primary" ELSE "fallback",
                   !["t1"].pcalls = IF RetryAgain(ATask.attempts, gen.maxr) THEN @ + 1 ELSE @,
                   !["t1"].fcalls = IF RetryAgain(ATask.attempts, gen.maxr) THEN @ ELSE @ + 1,
                   !["t1"].trace = Append(@, NextCall(ATask.attempts, gen.maxr))]
    /\ UNCHANGED <<dicts, heap, wrote, node, mrRuns, forkSnap, lastJoin, doneOrder,
                   fails, calls, gvars, svars>>

\* asyncio.sleep returns: the backoff doubles and the loop makes its next call
ASleepReturn ==
    /\ ATask.pc = "sleep"
    /\ tasks' = [tasks EXCEPT
                   !["t1"].backoff = NextBackoff(@),
                   !["t1"].pc = IF RetryAgain(ATask.attempts, gen.maxr)
                                THEN "primary" ELSE "fallback",
                   !["t1"].pcalls = IF RetryAgain(ATask.attempts, gen.maxr) THEN @ + 1 ELSE @,
                   !["t1"].fcalls = IF RetryAgain(ATask.attempts, gen.maxr) THEN @ ELSE @ + 1,
                   !["t1"].trace = Append(@, NextCall(ATask.attempts, gen.maxr))]
    /\ UNCHANGED <<dicts, heap, wrote, node, mrRuns, forkSnap, lastJoin, doneOrder,
                   fails, calls, gvars, svars>>

\* await llm_fallback.ainvoke returns content
AFallbackReturn ==
    /\ ATask.pc = "fallback"
    /\ FallbackMayReturn
    /\ \E content \in SameContent : Commit(GenFallbackOk(W, "t1", ATask.step, content))
    /\ tasks' = [tasks EXCEPT !["t1"].pc = "returned"]
    /\ UNCHANGED <<node, mrRuns, forkSnap, lastJoin, doneOrder, fails, calls, gvars, svars>>

\* await llm_fallback.ainvoke raises
AFallbackRaise ==
    /\ ATask.pc = "fallback"
    /\ FallbackMayRaise
    /\ Commit(GenFallbackFail(W, "t1", ATask.step))
    /\ tasks' = [tasks EXCEPT !["t1"].pc = "returned"]
    /\ UNCHANGED <<node, mrRuns, forkSnap, lastJoin, doneOrder, fails, calls, gvars, svars>>

NextGenPair ==
    \/ NextGen
    \/ AGenBegin
    \/ APrimaryReturn
    \/ APrimaryRaise
    \/ ASleepReturn
    \/ AFallbackReturn
    \/ AFallbackRaise

SpecGenPair == InitGenPair /\ [][NextGenPair]_vars

\* the entry of a nested dict of the asynchronous run's state
AEntry(key, s) == heap[dicts["c1"][key].a].m[s]

\* C24: with the same max_retries and the same outcomes of the backend
\* calls, generate_with_retries_async makes the calls and the backoff sleeps
\* that generate_with_retries made, in the same order, and leaves the same
\* output field, model_used entry and retries entry.
C24_AsyncEquivalent ==
    /\ IsPrefix(ATask.trace, gen.trace)
    /\ ATask.pc = "returned" =>
          /\ ATask.trace = gen.trace
          /\ dicts["c1"][gen.key] = Main[gen.key]
          /\ AEntry("model_used", gen.key) = ModelUsed(gen.key)
          /\ AEntry("retries", gen.key) = Retries(gen.key)

\* reached: both variants failed three primary calls, slept 0.5, 1.0 and 2.0
\* seconds and returned the fallback's content
C24_Witness ==
    /\ gen.pc = "returned" /\ ATask.pc = "returned"
    /\ gen.maxr = 2 /\ gen.pfails = 3 /\ gen.fcalls = 1 /\ gen.ffails = 0
    /\ ATask.attempts = 3
    /\ Sleeps(ATask.trace) = <<Sleep(500), Sleep(1000), Sleep(2000)>>
    /\ AEntry("model_used", gen.key) = StrV("fallback")

----------------------------------------------------------------------------
(* The two session backends side by side: the in-process store, where the  *)
(* session's data is the dict the handlers work on, and the external       *)
(* cache, where every read deserializes a copy of the stored document and  *)
(* update_session writes back the document with the updates merged in.     *)
(* The same requests are applied to both.                                  *)

\* json.dumps of the session payload: every nested object by value
CacheDoc(d, h, t) ==
    [t |-> "session", created_at |-> t, last_accessed |-> t, data |-> Deep(d, h),
     history |-> <<>>]

\* json.loads of a stored document's data: fresh nested objects
IsObject(v) == v.t \in {"dict", "list"}
LoadAddr(k) == IF k = "retries" THEN 1 ELSE IF k = "model_used" THEN 2 ELSE 3
LoadedDict(data) == [k \in Keys |-> IF IsObject(data[k]) THEN RefV(LoadAddr(k)) ELSE data[k]]
LoadedHeap(data) ==
    [a \in Addrs |->
        IF \E k \in Keys : IsObject(data[k]) /\ LoadAddr(k) = a
        THEN data[CHOOSE k \in Keys : IsObject(data[k]) /\ LoadAddr(k) = a]
        ELSE NoObj]
Loaded(data) ==
    World([i \in DictIds |-> IF i = "main" THEN LoadedDict(data) ELSE NoDict],
          LoadedHeap(data), [tk \in TaskIds |-> {}])

\* update_session with the cache configured (sessions.py:56-70)
cache_update_session(doc, data, action, t) ==
    [doc EXCEPT !.data = [k \in Keys |-> IF k \in DOMAIN data THEN data[k] ELSE @[k]],
                !.last_accessed = t,
                !.history = Append(@, [timestamp |-> t, action |-> action, data |-> data])]

\* POST /refine with the cache configured: the handler works on the copy
\* that get_session deserialized and stores its changes with update_session
CacheRefine(doc, section, out, content, co, t) ==
    LET w == RefineFiles(RefineDataUpdate(RefineData(Loaded(doc.data), section, out,
                                                     content, co)), section)
        data == Deep(w.d["main"], w.h)
        d1 == cache_update_session(
                  [doc EXCEPT !.last_accessed = t],
                  [k \in {section, "recent_events", "memory_summary"} |-> data[k]],
                  "update", t)
    IN  IF NeedsFiles(section)
        THEN cache_update_session(d1, [k \in {"downloadable_files"} |-> data[k]],
                                  "update", t)
        ELSE d1

InitBackends ==
    /\ dicts = [i \in DictIds |-> IF i = "main" THEN FinalState ELSE NoDict]
    /\ heap = FinalHeap
    /\ tasks = [tk \in TaskIds |-> IdleTask]
    /\ node = "END"
    /\ mrRuns = 1
    /\ wrote = [tk \in TaskIds |-> {}]
    /\ forkSnap = Deep(FinalState, FinalHeap)
    /\ lastJoin = 2
    /\ doneOrder = <<"t1", "t2">>
    /\ fails = 0
    /\ calls = 0
    /\ gen = InitGen
    /\ now = 0
    /\ session_store = create_session([sid \in SessionIds |-> NoSession], RunSid,
                                      PresentKeys(FinalState), 0)
    /\ lastAccess = [sid \in SessionIds |-> IF sid = RunSid THEN UsedAt(0) ELSE NeverUsed]
    /\ lastGet = [t |-> "none"]
    /\ InitRefine /\ InitMemory /\ InitQuality /\ InitSearch
    /\ redis = [sid \in SessionIds |->
                   IF sid = RunSid THEN CacheDoc(FinalState, FinalHeap, 0) ELSE NoSession]
    /\ procs = [p \in Procs |-> IdleProc]
    /\ acked = {}

\* the same refine request handled over each backend
BothRefine(sid) ==
    /\ refines < MaxRefines
    /\ refines' = refines + 1
    /\ Stored(session_store, sid)
    /\ \E section \in RefineSections, out \in GenOutcomes(REFINE_MAX_RETRIES),
          content \in RefineTexts, co \in {"ok", "fail"} :
          /\ RefineFound(sid, section, out, content, co)
          /\ redis' = [redis EXCEPT ![sid] = CacheRefine(@, section, out, content, co, now)]
    /\ UNCHANGED <<tasks, node, mrRuns, forkSnap, lastJoin, doneOrder, calls,
                   gvars, now, lastGet, procs, acked, mvars, q, search>>

\* the same get_session over each backend
BothGet(sid) ==
    /\ Stored(session_store, sid)
    /\ session_store' = get_session(session_store, sid, now)
    /\ redis' = [redis EXCEPT ![sid].last_accessed = now]
    /\ lastGet' = [t |-> "get", sid |-> sid, found |-> TRUE,
                   data |-> Deep(dicts["main"], heap),
                   history |-> HistoryView(session_store, heap, sid),
                   cached |-> redis'[sid]]
    /\ lastAccess' = [lastAccess EXCEPT ![sid] = UsedAt(now)]
    /\ UNCHANGED <<now, pvars, gvars, rvars, procs, acked, mvars, q, search>>

NextBackends ==
    \/ \E sid \in SessionIds : BothRefine(sid)
    \/ \E sid \in SessionIds : BothGet(sid)

SpecBackends == InitBackends /\ [][NextBackends]_vars

\* C26: after the same requests, get_session returns the same session data
\* (retries and model_used included) and the same history from the in-process
\* store and from the external cache.
C26_BackendsAgree ==
    lastGet.t = "get" =>
        /\ lastGet.cached.data = lastGet.data
        /\ lastGet.cached.history = lastGet.history

\* the sections of the events of the orchestrator state, from position a to b
EventSections(a, b) == {MainEvents[i].section : i \in a..b}

\* C27: at the end of a run in which market_research executed n times
\* (1 <= n <= 3), the event log of the merged state has exactly n + 4 events,
\* one per step execution: n of market_research, then the two of the first
\* group, then the two of the second group - whether the steps' generations
\* succeeded, fell back or failed.
C27_EveryStepLogged ==
    node = "END" =>
        /\ mrRuns \in 1..3
        /\ Len(MainEvents) = mrRuns + 4
        /\ EventSections(1, mrRuns) = {"market_research"}
        /\ EventSections(mrRuns + 1, mrRuns + 2) = {"product_description", "pricing_strategy"}
        /\ EventSections(mrRuns + 3, mrRuns + 4) = {"launch_plan", "marketing_content"}

\* reached: a run with three executions of market_research and a step whose
\* generation failed ends with seven events
C27_Witness ==
    /\ node = "END" /\ mrRuns = 3
    /\ Main["product_description"] = SentinelText
    /\ Len(MainEvents) = 7

\* C28: get_session and update_session on a stored session set its
\* last_accessed to the time of the call, no operation changes created_at
\* while the session is stored, and created_at <= last_accessed holds for
\* every stored session.
C28_AccessTimes ==
    [][\A sid \in SessionIds :
          /\ Stored(session_store', sid) =>
                /\ session_store'[sid].created_at <= session_store'[sid].last_accessed
                /\ session_store'[sid].last_accessed = lastAccess'[sid].at
          /\ (Stored(session_store, sid) /\ Stored(session_store', sid)) =>
                session_store'[sid].created_at = session_store[sid].created_at]_vars

\* reached: a session read 12 hours or more after it was created
C28_Witness ==
    /\ lastGet.t = "get" /\ lastGet.found
    /\ Stored(session_store, lastGet.sid)
    /\ session_store[lastGet.sid].created_at < session_store[lastGet.sid].last_accessed
    /\ session_store[lastGet.sid].last_accessed = now

----------------------------------------------------------------------------
(* Cancellation of a run while a parallel group is in flight.  Cancelling   *)
(* the task that awaits asyncio.gather cancels the gather, which cancels    *)
(* every member that has not completed: CancelledError is raised in the     *)
(* member at the await it is suspended in.  Inside                          *)
(* generate_with_retries_async the awaits of the backend calls stand in     *)
(* try blocks with `except Exception`; the await of asyncio.sleep stands in *)
(* the handler, outside any try.                                            *)

CancelledError == "CancelledError"

\* the exception classes that `except Exception` handles: CancelledError
\* derives from BaseException
ExceptionClasses == {"Exception"}

\* mutant: a bare except clause
CaughtByBareExcept(cls) == TRUE

\* except Exception: (generation.py:49 and 60)
CaughtByExceptException(cls) == cls \in ExceptionClasses

Suspended(t) == t.pc \in {"search", "primary", "sleep", "fallback"}

GroupInFlight ==
    /\ node \in {"parallel_phase_1", "parallel_phase_2"}
    /\ tasks["t1"].pc # "idle" /\ tasks["t2"].pc # "idle"

\* the run is cancelled while parallel_phase_k awaits asyncio.gather
CancelRun ==
    /\ GroupInFlight
    /\ \E tk \in Members : Suspended(tasks[tk])
    /\ node' = "cancelling"
    /\ UNCHANGED <<dicts, heap, tasks, mrRuns, wrote, forkSnap, lastJoin, doneOrder,
                   fails, calls, gvars, svars>>

\* CancelledError is raised in a suspended member at its await
DeliverCancel(tk) ==
    /\ node = "cancelling"
    /\ tk \in Members
    /\ Suspended(tasks[tk])
    /\ LET t == tasks[tk]
           handled == t.pc \in {"primary", "fallback"}
                      /\ CaughtByExceptException(CancelledError)
       IN  IF ~handled
           THEN /\ tasks' = [tasks EXCEPT ![tk].pc = "cancelled"]
                /\ UNCHANGED <<dicts, heap, wrote, fails, calls, doneOrder>>
           ELSE IF t.pc = "primary"
           THEN /\ Commit(GenPrimaryFail(W, tk, t.step, t.attempts))
                /\ tasks' = [tasks EXCEPT ![tk].pc = "sleep", ![tk].attempts = @ + 1]
                /\ UNCHANGED <<fails, calls, doneOrder>>
           ELSE /\ Finish(GenFallbackFail(W, tk, t.step), tk, "ok", 0)
                /\ tasks' = [tasks EXCEPT ![tk].pc = "done"]
    /\ UNCHANGED <<node, mrRuns, forkSnap, lastJoin, gvars, svars>>

\* every member has ended: gather raises CancelledError in parallel_phase_k,
\* which ends without merging
CancelEnd ==
    /\ node = "cancelling"
    /\ \A tk \in Members : ~Suspended(tasks[tk])
    /\ node' = "cancelled"
    /\ UNCHANGED <<dicts, heap, tasks, mrRuns, wrote, forkSnap, lastJoin, doneOrder,
                   fails, calls, gvars, svars>>

Running == node \notin {"cancelling", "cancelled"}

NextCancel ==
    \/ (Running /\ Next)
    \/ CancelRun
    \/ \E tk \in Members : DeliverCancel(tk)
    \/ CancelEnd

SpecCancel == Init /\ [][NextCancel]_vars

\* C29: once a run is cancelled with a parallel group in flight, every member
\* suspended in a backend call or a backoff sleep ends cancelled: no further
\* primary or fallback call is made, nothing is written to any state (no
\* retries count, no sentinel), and no merge follows.
C29_CancellationPropagates ==
    [][node = "cancelling" =>
          /\ dicts' = dicts /\ heap' = heap
          /\ \A tk \in Members :
                /\ tasks'[tk].pcalls = tasks[tk].pcalls
                /\ tasks'[tk].fcalls = tasks[tk].fcalls
                /\ tasks'[tk] # tasks[tk] =>
                      (Suspended(tasks[tk]) /\ tasks'[tk].pc = "cancelled")
          /\ lastJoin' = lastJoin
          /\ node' \in {"cancelling", "cancelled"}
          /\ node' = "cancelled" =>
                \A tk \in Members : tasks'[tk].pc \in {"done", "cancelled"}]_vars

\* reached: a cancelled run whose first member was cancelled after a failed
\* primary call (in its backoff sleep or its second call) and whose second
\* member was cancelled too
C29_Witness ==
    /\ node = "cancelled"
    /\ tasks["t1"].pc = "cancelled" /\ tasks["t1"].attempts = 1
    /\ tasks["t2"].pc = "cancelled"
    /\ lastJoin = 0

----------------------------------------------------------------------------
(* Degraded outputs and the quality gate: quality.py 4-22, search.py 32-35,
   generation.py 30-33. A text is a sequence of blank-separated words. *)

\* the failure_indicators of assess_quality, as lower-case word sequences,
\* without the phrases for search API errors
FailureIndicatorsNoApiError ==
    {<<"warn", "generation", "failed">>,
     <<"generation", "failed", "after", "retries">>,
     <<"web", "search", "unavailable:">>,
     <<"failed", "to", "generate">>, <<"unable", "to", "generate">>,
     <<"generation", "error:">>, <<"api", "unavailable">>}

\* the failure_indicators of assess_quality, as lower-case word sequences
\* ("warn" stands for the warning sign)
FailureIndicators ==
    {<<"warn", "generation", "failed">>,
     <<"generation", "failed", "after", "retries">>,
     <<"api", "error:">>, <<"search", "api", "error:">>,
     <<"web", "search", "unavailable:">>,
     <<"failed", "to", "generate">>, <<"unable", "to", "generate">>,
     <<"generation", "error:">>, <<"api", "unavailable">>}

\* the placeholders of assess_quality, as lower-case word sequences
PlaceholderPhrases ==
    {<<"placeholder", "text">>, <<"sample", "content">>, <<"example", "text">>,
     <<"lorem", "ipsum">>, <<"to", "be", "filled">>, <<"coming", "soon">>}

\* str(status_code)
StatusWord(status) ==
    CASE status = 200 -> "200" [] status = 201 -> "201"
      [] status = 404 -> "404" [] OTHER -> "500"

\* response.text, as words
BodyWords(body) ==
    CASE body.j = "notjson" -> <<"Bad", "Gateway">>
      [] body.j = "null" -> <<"null">>
      [] OTHER -> <<"[]">>

\* the words of what web_search returns on a failure, and of the sentinel of
\* generate_text_with_fallback
DegradedWords(r) ==
    CASE r.kind = "api_error" ->
            <<"warn", "Search", "API", "error:", StatusWord(r.status), "-">>
                \o BodyWords(r.text)
      [] r.kind = "unavailable" ->
            <<"warn", "Web", "search", "unavailable:", r.reason, "Using",
              "AI-only", "analysis.">>
      [] OTHER ->
            <<"warn", "Generation", "failed", "after", "retries", "and",
              "fallback.">>

\* str.lower() of a word
LowerWord(w) ==
    CASE w = "Search" -> "search" [] w = "API" -> "api" [] w = "Web" -> "web"
      [] w = "Generation" -> "generation" [] w = "Using" -> "using"
      [] w = "AI-only" -> "ai-only" [] w = "Bad" -> "bad"
      [] w = "Gateway" -> "gateway" [] w = "Our" -> "our"
      [] w = "Error" -> "error" [] w = "ConnectionError" -> "connectionerror"
      [] w = "Timeout" -> "timeout" [] w = "InvalidHeader" -> "invalidheader"
      [] w = "JSONDecodeError" -> "jsondecodeerror"
      [] w = "TypeError" -> "typeerror"
      [] w = "AttributeError" -> "attributeerror"
      [] OTHER -> w

LowerWords(ws) == [i \in 1..Len(ws) |-> LowerWord(ws[i])]

\* len() of a word
WordLen(w) ==
    CASE w \in {"-"} -> 1
      [] w \in {"warn", "[]", "to", "is"} -> 2
      [] w \in {"API", "api", "Web", "web", "and", "200", "201", "404", "500",
                "Bad", "bad", "Our", "our"} -> 3
      [] w \in {"null", "plan"} -> 4
      [] w \in {"Using", "using", "Error", "error"} -> 5
      [] w \in {"Search", "search", "error:", "failed", "after"} -> 6
      [] w \in {"retries", "AI-only", "ai-only", "Gateway", "gateway",
                "Timeout", "timeout"} -> 7
      [] w \in {"analysis.", "fallback.", "TypeError", "typeerror"} -> 9
      [] w \in {"Generation", "generation"} -> 10
      [] w \in {"unavailable:"} -> 12
      [] w \in {"InvalidHeader", "invalidheader"} -> 13
      [] w \in {"AttributeError", "attributeerror"} -> 14
      [] OTHER -> 15

RECURSIVE WordsLen(_)
\* len() of the words joined by single blanks
WordsLen(ws) ==
    IF ws = <<>> THEN 0
    ELSE WordLen(Head(ws)) + (IF Len(ws) > 1 THEN 1 ELSE 0) + WordsLen(Tail(ws))

\* phrase in blob_lower
ContainsPhrase(ws, phrase) ==
    \E i \in 1..(Len(ws) - Len(phrase) + 1) :
        SubSeq(ws, i, i + Len(phrase) - 1) = phrase

\* what assess_quality reads of a text made of words
TextOfWords(ws) ==
    Text(ws, WordsLen(ws), 0, Len(ws),
         \E phrase \in FailureIndicators : ContainsPhrase(LowerWords(ws), phrase),
         \E phrase \in PlaceholderPhrases : ContainsPhrase(LowerWords(ws), phrase),
         "none")

\* the responses on which web_search returns a failure placeholder
FailingResponses ==
    [t : {"error"}, exc : TransportErrors]
        \cup [t : {"http"}, status : Statuses \ {200},
              body : {[j |-> "notjson"], [j |-> "null"], [j |-> "array"]}]
        \cup [t : {"http"}, status : {200},
              body : {[j |-> "notjson"], [j |-> "null"], [j |-> "array"]}]

\* the text around a degraded output
ContextWords == {<<>>, <<"Our">>, <<"Our", "plan">>, <<"Error", "-">>}

\* the minimum_characters arguments: none, small, and the market research one
DegradedMins == {0, 6, 40, MARKET_RESEARCH_MIN_CHARS}

SentinelResult == [kind |-> "sentinel"]

InitDegraded ==
    /\ InitPipeline /\ gen = InitGen /\ InitSessions
    /\ InitRefine /\ InitRedis /\ InitMemory /\ InitSearch
    /\ \E pre \in ContextWords, post \in ContextWords, m \in DegradedMins :
          q = [pc |-> "context", pre |-> pre, post |-> post, min |-> m,
               source |-> [kind |-> "none"], words |-> <<>>, verdict |-> "none"]

\* web_search returns a failure placeholder; it is embedded in the text
DegradedSearch ==
    /\ q.pc = "context"
    /\ \E resp \in FailingResponses :
          LET r == web_search(TestQuery, DEFAULT_MAX_RESULTS, resp)
          IN  /\ r.kind \in {"api_error", "unavailable"}
              /\ q' = [q EXCEPT !.pc = "text", !.source = r,
                                !.words = q.pre \o DegradedWords(r) \o q.post]
    /\ UNCHANGED <<dicts, heap, tasks, node, mrRuns, wrote, forkSnap, lastJoin,
                   doneOrder, fails, calls, gen, session_store, now, lastAccess,
                   lastGet, refines, lastRefine, redis, procs, acked, logged,
                   lastCompact, search>>

\* generate_text_with_fallback returns its sentinel; it is embedded in the text
DegradedGeneration ==
    /\ q.pc = "context"
    /\ q' = [q EXCEPT !.pc = "text", !.source = SentinelResult,
                      !.words = q.pre \o DegradedWords(SentinelResult) \o q.post]
    /\ UNCHANGED <<dicts, heap, tasks, node, mrRuns, wrote, forkSnap, lastJoin,
                   doneOrder, fails, calls, gen, session_store, now, lastAccess,
                   lastGet, refines, lastRefine, redis, procs, acked, logged,
                   lastCompact, search>>

\* assess_quality(text, minimum_characters)
DegradedAssess ==
    /\ q.pc = "text"
    /\ q' = [q EXCEPT !.pc = "assessed",
                      !.verdict = assess_quality(TextOfWords(q.words), q.min)]
    /\ UNCHANGED <<dicts, heap, tasks, node, mrRuns, wrote, forkSnap, lastJoin,
                   doneOrder, fails, calls, gen, session_store, now, lastAccess,
                   lastGet, refines, lastRefine, redis, procs, acked, logged,
                   lastCompact, search>>

NextDegraded == DegradedSearch \/ DegradedGeneration \/ DegradedAssess

SpecDegraded == InitDegraded /\ [][NextDegraded]_vars

\* C30: every text that contains a failure placeholder of web_search (API
\* error or search unavailable) or the sentinel of generate_text_with_fallback
\* is assessed "poor", for every minimum_characters.
C30_DegradedRecognised ==
    q.pc = "assessed" => q.verdict = "poor"

\* an API error placeholder inside a longer text, assessed with minimum 0 so
\* that only the failure indicators can reject it
C30_Witness ==
    /\ q.pc = "assessed" /\ q.min = 0 /\ q.source.kind = "api_error"
    /\ q.pre = <<"Our", "plan">> /\ q.post = <<"Our">>
    /\ q.verdict = "poor"

----------------------------------------------------------------------------
(* Routing after market_research: workflow.py 244-252 *)

StoredVerdictPoor == Main["market_research_quality"] = StrV("poor")
MrRetries == GetInt(Main, "_mr_retries", 0)

\* the conditional edge is taken after a completed market_research
RoutingStep ==
    RouteReady /\ tasks["main"].pc = "done" /\ tasks'["main"].pc = "idle"

\* C31: after market_research the step is re-entered exactly when the stored
\* verdict is "poor" and _mr_retries < 2, otherwise the run proceeds to
\* parallel group 1; every re-entry follows a "poor" verdict, so the number of
\* executions is 1 plus the number of leading "poor" verdicts, capped at 3: a
\* run past market_research with a "good" verdict made _mr_retries + 1
\* executions, one with a "poor" verdict made 3.
C31_RouteAfterMarketResearch ==
    /\ [][RoutingStep =>
            /\ node' = IF StoredVerdictPoor /\ MrRetries < 2
                       THEN "market_research" ELSE "parallel_phase_1"
            /\ mrRuns = MrRetries + 1 /\ mrRuns' = mrRuns]_vars
    /\ [](PastMarketResearch =>
            mrRuns = IF StoredVerdictPoor THEN 3 ELSE MrRetries + 1)

\* a "good" verdict on the first attempt: one execution, no loop
C31_Witness ==
    /\ node = "parallel_phase_1" /\ mrRuns = 1
    /\ Main["market_research_quality"] = StrV("good") /\ MrRetries = 0

\* the re-entries of market_research decided by the router so far
MrReentries ==
    IF mrRuns = 0 \/ (node = "market_research" /\ tasks["main"].pc = "idle")
    THEN mrRuns ELSE mrRuns - 1

\* C32: in every reachable pipeline state _mr_retries is 0, 1 or 2 and equals
\* the number of market_research re-entries so far, _mr_query_hint is set if
\* and only if _mr_retries >= 1, and an execution of market_research uses the
\* hint in its search query and prompt exactly when it is a re-entered one.
C32_LoopBookkeeping ==
    /\ MrRetries \in {0, 1, 2}
    /\ MrRetries = MrReentries
    /\ (Main["_mr_query_hint"] # Absent) <=> (MrRetries >= 1)
    /\ (tasks["main"].step = "market_research" /\ tasks["main"].pc # "raised")
          => (tasks["main"].hint <=> mrRuns >= 2)

\* the third execution is running with the hint: two re-entries counted
C32_Witness ==
    /\ node = "market_research" /\ tasks["main"].pc = "primary"
    /\ mrRuns = 3 /\ MrRetries = 2 /\ tasks["main"].hint

----------------------------------------------------------------------------
(* Bookkeeping and frame of one generate_with_retries invocation:
   generation.py 6-33 *)

\* C33: when generate_with_retries(section_key, max_retries = n) returns,
\* retries[section_key] is the number of failed primary attempts and lies in
\* 0..n+1; model_used[section_key] is "primary" iff a primary attempt
\* succeeded, "fallback" iff all n+1 primary attempts failed and the fallback
\* succeeded, and "failed" iff the output field is the sentinel.
C33_GenBookkeeping ==
    gen.pc = "returned" =>
        /\ Retries(gen.key) = IntV(gen.pfails)
        /\ gen.pfails \in 0..(gen.maxr + 1)
        /\ (ModelUsed(gen.key) = StrV("primary")) <=> gen.psucc
        /\ (ModelUsed(gen.key) = StrV("fallback"))
              <=> (gen.pfails = gen.maxr + 1 /\ gen.fcalls = 1 /\ gen.ffails = 0)
        /\ (ModelUsed(gen.key) = StrV("failed")) <=> (Main[gen.key] = SentinelText)
        /\ ModelUsed(gen.key) \in {StrV("primary"), StrV("fallback"), StrV("failed")}

\* three failed primary attempts with max_retries = 2, then the fallback answers
C33_Witness ==
    /\ gen.pc = "returned" /\ gen.maxr = 2 /\ gen.pfails = 3
    /\ Retries(gen.key) = IntV(3) /\ ModelUsed(gen.key) = StrV("fallback")

\* the states generate_with_retries is invoked on: the state a run starts
\* with, and the state of a completed run (as refine finds it in a session)
PreStates == {[d |-> InitDict, h |-> InitHeap], [d |-> FinalState, h |-> FinalHeap]}

InitGenFrame ==
    /\ InitSessions
    /\ InitRefine /\ InitRedis /\ InitMemory /\ InitQuality /\ InitSearch
    /\ tasks = [tk \in TaskIds |-> IdleTask]
    /\ node = "market_research" /\ mrRuns = 0 /\ lastJoin = 0 /\ doneOrder = <<>>
    /\ wrote = [tk \in TaskIds |-> {}]
    /\ fails = 0 /\ calls = 0
    /\ \E pre \in PreStates, key \in Steps, n \in 0..MaxGenRetries :
          /\ dicts = [i \in DictIds |-> IF i = "main" THEN pre.d ELSE NoDict]
          /\ heap = pre.h
          /\ forkSnap = Deep(pre.d, pre.h)
          /\ gen = [InitGen EXCEPT !.pc = "start", !.key = key, !.maxr = n]

SpecGenFrame == InitGenFrame /\ [][NextGen]_vars

\* the keys of the state whose value is a dict of per-step entries
EntryKeys == {"retries", "model_used"}

\* a backend call of the invocation has succeeded, or the sentinel is written
OutputWritten ==
    gen.pc = "returned" /\ (gen.psucc \/ gen.fcalls = 1)

\* C34: an invocation of generate_with_retries for section_key changes only
\* the output field, the model_used entry and the retries entry of
\* section_key: every other key of the state, every other step's retries and
\* model_used entry and every other object keep the value they had at entry,
\* and the output field keeps its previous value until a backend call
\* succeeds or the sentinel is written.
C34_GenFrame ==
    gen.pc # "off" =>
        /\ \A k \in Keys \ ({gen.key} \cup EntryKeys) :
              Deep(Main, heap)[k] = forkSnap[k]
        /\ \A k \in EntryKeys :
              /\ Main[k] = InitDict[k]
              /\ \A s \in SectionKeys \ {gen.key} :
                    heap[Main[k].a].m[s] = forkSnap[k].m[s]
        /\ ~OutputWritten => Main[gen.key] = forkSnap[gen.key]

\* a second primary failure on a completed state: launch_plan still holds its
\* text, the other steps' entries are those of the completed run
C34_Witness ==
    /\ gen.pc = "fallback" /\ gen.key = "launch_plan" /\ gen.pfails = 2
    /\ Main["launch_plan"] = WithDiagram(GoodJsonText)
    /\ Retries("launch_plan") = IntV(2)
    /\ ModelUsed("market_research") = StrV("primary")

====
